---- MODULE Spec2Model ----
(***************************************************************************)
(* DocumentParser (src/src/document_parser.py): the trainable classifier   *)
(* state, its train / predict / save / load operations, the parse_document *)
(* orchestrator, the text functions it calls (clean_text and the           *)
(* extract_* functions), evaluate_model and the corpus loaders; with it    *)
(* TrainingPipeline (src/src/training_pipeline.py) and the two parsing     *)
(* tasks of src/src/celery_app.py.                                         *)
(*                                                                         *)
(* The scikit-learn objects are abstracted to what the code observes of    *)
(* them: whether they are fitted, what they were fitted on, and when their *)
(* calls raise.                                                            *)
(***************************************************************************)
EXTENDS Integers, Sequences, FiniteSets, TLC

\* ---------------------------------------------------------------- bounds
\* most samples of one document_type in a training DataFrame
MaxPerClass == 3
\* train_model calls in one behaviour (datetime.now() ticks once per call)
MaxClock == 2

\* pages of a PDF file
MaxPages == 2
\* characters of the text OCR recognizes in an image
MaxOcrLen == 1

\* pieces of a text given to clean_text
MaxCleanPieces == 3

\* phone numbers the contact phone rule matches in one text
MaxPhones == 2

\* entities spaCy recognizes in one text
MaxEnts == 3

\* places of one text where a rule of the pattern table matches
MaxMatches == 2

\* person entities spaCy recognizes in the text of one document
MaxNames == 2

\* documents in the list given to evaluate_model or to a batch task
MaxDocs == 3
\* characters of the text of one PDF page given to extract_text_from_pdf alone
MaxPageLen == 2
\* rows of a CSV file, files of a directory given to a corpus loader
MaxRows == 2

\* ------------------------------------------------------- program constants
\* TfidfVectorizer(max_features=1000, ...)
max_features == 1000
\* if len(df) < 10: warning
small_dataset == 10
\* cleaned_text[:1000] + "..."
preview_chars == 1000
\* if len(block) > 10
min_block_len == 10
\* len(name.split()) >= 2 and len(name) > 4
min_name_tokens == 2
min_name_len == 4
\* if text and len(text) > 50:  # Minimum text length
min_text_length == 50

Labels == {"invoice", "receipt"}
\* LabelEncoder.classes_ is sorted
LabelOrder == <<"invoice", "receipt">>
\* the terms training texts are made of
Terms == {"total"}
\* the texts handed to predict_document_type
Texts == {"Total: $15"}
\* a training DataFrame: how many rows carry each document_type, and the
\* terms its text column contains
DataFrames == [counts : [Labels -> 0..MaxPerClass], terms : SUBSET Terms]

Min(a, b) == IF a < b THEN a ELSE b

\* ------------------------------------------------------------ ML components
UnfittedVectorizer == [fitted |-> FALSE, vocabulary |-> {}]
FittedVectorizer(terms) == [fitted |-> TRUE, vocabulary |-> terms]
NumFeatures(vocabulary) == Min(Cardinality(vocabulary), max_features)

NoDecision == [t \in Texts |-> 0]
UnfittedClassifier(kind) ==
    [kind |-> kind, fitted |-> FALSE, vocabulary |-> {}, n_classes |-> 0,
     decision |-> NoDecision]
\* a classifier fitted on the features of `vocabulary` over class indices
\* 0..k-1; decision is the class index it predicts for each text when the
\* text is transformed with that same vocabulary
FittedClassifier(kind, vocabulary, k, decision) ==
    [kind |-> kind, fitted |-> TRUE, vocabulary |-> vocabulary, n_classes |-> k,
     decision |-> decision]

UnfittedEncoder == [fitted |-> FALSE, classes |-> <<>>]
FittedEncoder(labels) ==
    [fitted |-> TRUE, classes |-> SelectSeq(LabelOrder, LAMBDA l : l \in labels)]

\* ClassifierState as set up by DocumentParser.__init__
Fresh ==
    [vectorizer |-> UnfittedVectorizer,
     classifier |-> UnfittedClassifier("RandomForest"),
     label_encoder |-> UnfittedEncoder,
     is_trained |-> FALSE,
     training_history |-> <<>>,
     last_training_samples |-> 0]

\* ------------------------------------------------------------- DataFrame
RECURSIVE SumOver(_, _)
SumOver(f, S) ==
    IF S = {} THEN 0
    ELSE LET x == CHOOSE y \in S : TRUE IN f[x] + SumOver(f, S \ {x})

\* len(df)
Len_df(df) == SumOver(df.counts, Labels)
\* the distinct df['document_type'] values
LabelsOf(df) == {l \in Labels : df.counts[l] > 0}

\* train_test_split(X, y, test_size=0.2, stratify=y) raises when a partition
\* would be empty, a class has a single member, or a partition is smaller
\* than the number of classes
n_test(df) == (Len_df(df) + 4) \div 5
n_train(df) == Len_df(df) - n_test(df)
SplitRaises(df) ==
    \/ n_train(df) = 0
    \/ \E l \in LabelsOf(df) : df.counts[l] < 2
    \/ n_train(df) < Cardinality(LabelsOf(df))
    \/ n_test(df) < Cardinality(LabelsOf(df))

\* ------------------------------------------------------------ train_model
\* where a scikit-learn call of train_model raises for a reason the
\* DataFrame abstraction does not determine
Faults == {"none", "encode", "fit", "report", "fit_and_fallback", "report_and_fallback"}

\* training_info = {"timestamp": datetime.now().isoformat(), "samples": len(df)}
TrainingInfo(df, ts) == [timestamp |-> ts, samples |-> Len_df(df)]

\* if len(df) < 10: self.logger.warning(...)
Warns(df) == Len_df(df) < small_dataset
\* faulty variant: the early return taken for every small DataFrame
NoTrainingData_AnySmall(df) == Len_df(df) < small_dataset
\* if len(df) == 0: return self
NoTrainingData(df) == Len_df(df) = 0

\* self.vectorizer.fit_transform(df['text']) raises on an empty vocabulary
VectorizerRaises(df) == df.terms = {}
\* self.classifier.fit(X_train, y_train) on the classifier object currently
\* held: LogisticRegression needs two classes
FitRaises(kind, df, fault) ==
    \/ fault \in {"fit", "fit_and_fallback"}
    \/ kind = "LogisticRegression" /\ Cardinality(LabelsOf(df)) < 2
\* self.classifier.predict(X_test) / classification_report(...)
ReportRaises(fault) == fault \in {"report", "report_and_fallback"}
\* the LogisticRegression(random_state=42).fit of the except branch
FallbackRaises(df, fault) ==
    \/ fault \in {"fit_and_fallback", "report_and_fallback"}
    \/ Cardinality(LabelsOf(df)) < 2

\* faulty variant: last_training_samples kept as a running total
MarkTrained_RunningTotal(s, info) ==
    [s EXCEPT !.is_trained = TRUE,
              !.last_training_samples = @ + info.samples,
              !.training_history = Append(@, info)]
\* faulty variant: last_training_samples left as it was
MarkTrained_SamplesKept(s, info) ==
    [s EXCEPT !.is_trained = TRUE,
              !.training_history = Append(@, info)]
\* faulty variant: the history overwritten instead of appended to
MarkTrained_Overwrite(s, info) ==
    [s EXCEPT !.is_trained = TRUE,
              !.last_training_samples = info.samples,
              !.training_history = <<info>>]
\* self.is_trained = True; self.last_training_samples = len(df);
\* self.training_history.append(training_info)
MarkTrained(s, info) ==
    [s EXCEPT !.is_trained = TRUE,
              !.last_training_samples = info.samples,
              !.training_history = Append(@, info)]

\* faulty variant: the three assignments placed before the evaluation of
\* the inner try, so that a raise after them reaches the except branch with
\* the record already appended
FitStage_MarksEarly(s, df, fault, decision, info) ==
    LET k == Cardinality(LabelsOf(df))
        fitted(kind) == FittedClassifier(kind, df.terms, k, decision)
        early == IF FitRaises(s.classifier.kind, df, fault) THEN s ELSE MarkTrained(s, info)
    IN  IF SplitRaises(df)
        THEN [state |-> s, outcome |-> "prep_failed"]
        ELSE IF ~FitRaises(s.classifier.kind, df, fault) /\ ~ReportRaises(fault)
        THEN [state |-> [early EXCEPT !.classifier = fitted(s.classifier.kind)],
              outcome |-> "primary"]
        ELSE IF ~FallbackRaises(df, fault)
        THEN [state |-> MarkTrained([early EXCEPT !.classifier = fitted("LogisticRegression")], info),
              outcome |-> "fallback"]
        ELSE [state |-> [early EXCEPT !.classifier = UnfittedClassifier("LogisticRegression")],
              outcome |-> "fit_failed"]
\* the try body from the split on, once vectorizer and label encoder are refit
FitStage(s, df, fault, decision, info) ==
    LET k == Cardinality(LabelsOf(df))
        fitted(kind) == FittedClassifier(kind, df.terms, k, decision)
    IN  IF SplitRaises(df)
        THEN [state |-> s, outcome |-> "prep_failed"]
        ELSE IF ~FitRaises(s.classifier.kind, df, fault) /\ ~ReportRaises(fault)
        THEN [state |-> MarkTrained([s EXCEPT !.classifier = fitted(s.classifier.kind)], info),
              outcome |-> "primary"]
        ELSE IF ~FallbackRaises(df, fault)
        THEN [state |-> MarkTrained([s EXCEPT !.classifier = fitted("LogisticRegression")], info),
              outcome |-> "fallback"]
        ELSE [state |-> [s EXCEPT !.classifier = UnfittedClassifier("LogisticRegression")],
              outcome |-> "fit_failed"]

\* train_model(df): the state it leaves and how the call ended.  keep says
\* whether a vectorizer whose fit_transform raised still holds its old fit.
train_model(s, df, fault, keep, decision, ts) ==
    LET info == TrainingInfo(df, ts)
        r == IF NoTrainingData(df)
             THEN [state |-> s, outcome |-> "empty"]
             ELSE IF VectorizerRaises(df)
             THEN [state |-> IF keep THEN s ELSE [s EXCEPT !.vectorizer = UnfittedVectorizer],
                   outcome |-> "prep_failed"]
             ELSE IF fault = "encode"
             THEN [state |-> [s EXCEPT !.vectorizer = FittedVectorizer(df.terms)],
                   outcome |-> "prep_failed"]
             ELSE FitStage([s EXCEPT !.vectorizer = FittedVectorizer(df.terms),
                                     !.label_encoder = FittedEncoder(LabelsOf(df))],
                           df, fault, decision, info)
    IN  [state |-> r.state, outcome |-> r.outcome, warned |-> Warns(df)]

\* ------------------------------------------------- predict_document_type
\* faulty variant: the is_trained check left out
MustBeTrained_Skipped(s) == FALSE
\* if not self.is_trained: raise ValueError(...)
MustBeTrained(s) == ~s.is_trained

UntrainedError == "ValueError: Model must be trained before prediction"
Raised(err) == [raised |-> TRUE, value |-> err]
Returned(v) == [raised |-> FALSE, value |-> v]

\* the class indices self.classifier.predict(features) can give for a text:
\* the fitted decision when the features come from the vocabulary the
\* classifier was fitted on, any of its classes when the vectorizer was
\* refitted on other texts of the same width since
PredictedIndices(s, text) ==
    IF s.vectorizer.vocabulary = s.classifier.vocabulary
    THEN {s.classifier.decision[text]}
    ELSE 0..(s.classifier.n_classes - 1)

\* self.label_encoder.inverse_transform(prediction)[0]
InverseTransform(enc, i) ==
    IF ~enc.fitted THEN Raised("NotFittedError")
    ELSE IF i + 1 > Len(enc.classes) THEN Raised("ValueError: unseen labels")
    ELSE Returned(enc.classes[i + 1])

\* every way predict_document_type(text) can end in state s
predict_document_type(s, text) ==
    IF MustBeTrained(s) THEN {Raised(UntrainedError)}
    ELSE IF ~s.vectorizer.fitted THEN {Raised("NotFittedError")}
    ELSE IF ~s.classifier.fitted THEN {Raised("NotFittedError")}
    ELSE IF NumFeatures(s.vectorizer.vocabulary) # NumFeatures(s.classifier.vocabulary)
    THEN {Raised("ValueError: feature mismatch")}
    ELSE {InverseTransform(s.label_encoder, i) : i \in PredictedIndices(s, text)}

\* --------------------------------------------------- save_model, load_model
Missing == [kind |-> "missing"]
Pickle(data) == [kind |-> "pickle", data |-> data]

\* faulty variant: the training history left out of the artifact
model_data_NoHistory(s) ==
    [vectorizer |-> s.vectorizer,
     classifier |-> s.classifier,
     label_encoder |-> s.label_encoder,
     is_trained |-> s.is_trained,
     last_training_samples |-> s.last_training_samples]
\* model_data = {...}: what joblib.dump writes
model_data(s) ==
    [vectorizer |-> s.vectorizer,
     classifier |-> s.classifier,
     label_encoder |-> s.label_encoder,
     is_trained |-> s.is_trained,
     training_history |-> s.training_history,
     last_training_samples |-> s.last_training_samples]

\* dict.get(key, default)
Get(d, key, default) == IF key \in DOMAIN d THEN d[key] ELSE default

\* the except branch of load_model
ResetComponents(s) ==
    [s EXCEPT !.vectorizer = UnfittedVectorizer,
              !.classifier = UnfittedClassifier("RandomForest"),
              !.label_encoder = UnfittedEncoder,
              !.is_trained = FALSE]

RequiredKeys == {"vectorizer", "classifier", "label_encoder", "is_trained"}

\* faulty variant: a missing file treated like one that fails to load
load_model_MissingResets(s, file, readable) ==
    IF file.kind = "missing" THEN [state |-> ResetComponents(s), outcome |-> "missing"]
    ELSE IF ~readable \/ ~(RequiredKeys \subseteq DOMAIN file.data)
    THEN [state |-> ResetComponents(s), outcome |-> "corrupt"]
    ELSE [state |-> [vectorizer |-> file.data.vectorizer,
                     classifier |-> file.data.classifier,
                     label_encoder |-> file.data.label_encoder,
                     is_trained |-> file.data.is_trained,
                     training_history |-> Get(file.data, "training_history", <<>>),
                     last_training_samples |-> Get(file.data, "last_training_samples", 0)],
          outcome |-> "loaded"]
\* load_model(path) on a file in state `file`; readable says whether
\* joblib.load deserializes it
load_model(s, file, readable) ==
    IF file.kind = "missing" THEN [state |-> s, outcome |-> "missing"]
    ELSE IF ~readable \/ ~(RequiredKeys \subseteq DOMAIN file.data)
    THEN [state |-> ResetComponents(s), outcome |-> "corrupt"]
    ELSE [state |-> [vectorizer |-> file.data.vectorizer,
                     classifier |-> file.data.classifier,
                     label_encoder |-> file.data.label_encoder,
                     is_trained |-> file.data.is_trained,
                     training_history |-> Get(file.data, "training_history", <<>>),
                     last_training_samples |-> Get(file.data, "last_training_samples", 0)],
          outcome |-> "loaded"]

\* faulty variant: the is_trained check left out of save_model
save_model_Unchecked(s, file) ==
    [file |-> Pickle(model_data(s)), makedirs |-> TRUE, result |-> Returned("None")]
\* if not self.is_trained: raise ValueError("Model must be trained before saving")
\* makedirs says whether the call got to os.makedirs(os.path.dirname(path))
save_model(s, file) ==
    IF ~s.is_trained
    THEN [file |-> file, makedirs |-> FALSE,
          result |-> Raised("ValueError: Model must be trained before saving")]
    ELSE [file |-> Pickle(model_data(s)), makedirs |-> TRUE, result |-> Returned("None")]

\* ------------------------------------------------------------------- text
\* a text is a sequence of characters; documents are written with a letter
\* and a blank, extract_text_from_pdf adds newlines
Chars == {"a", " "}
Newline == "\n"
IsSpace(c) == c \in {" ", Newline}

SeqsUpTo(S, n) == UNION {[1..k -> S] : k \in 0..n}

\* re.sub(r'\s+', ' ', text)
RECURSIVE CollapseWhitespace(_)
CollapseWhitespace(text) ==
    IF text = <<>> THEN <<>>
    ELSE IF IsSpace(Head(text))
    THEN LET rest == CollapseWhitespace(Tail(text))
         IN  IF rest # <<>> /\ Head(rest) = " " THEN rest ELSE <<" ">> \o rest
    ELSE <<Head(text)>> \o CollapseWhitespace(Tail(text))

\* str.strip()
RECURSIVE LStrip(_)
LStrip(text) ==
    IF text # <<>> /\ IsSpace(Head(text)) THEN LStrip(Tail(text)) ELSE text
RECURSIVE RStrip(_)
RStrip(text) ==
    IF text # <<>> /\ IsSpace(text[Len(text)])
    THEN RStrip(SubSeq(text, 1, Len(text) - 1)) ELSE text
Strip(text) == RStrip(LStrip(text))

\* The characters outside ASCII are written by code point: "U+FFFD" the
\* replacement character, "U+2013" and "U+2014" the en and the em dash.
Spaces == {" ", Newline}
Digits == {"1"}

Confidential == <<"C", "o", "n", "f", "i", "d", "e", "n", "t", "i", "a", "l">>
Proprietary == <<"P", "r", "o", "p", "r", "i", "e", "t", "a", "r", "y">>

\* whether the literal lit stands in text at position i
LitAt(text, i, lit) ==
    i + Len(lit) - 1 <= Len(text) /\ SubSeq(text, i, i + Len(lit) - 1) = lit

\* the length of the longest run of characters of a class from position i
RECURSIVE RunLen(_, _, _)
RunLen(text, i, class) ==
    IF i <= Len(text) /\ text[i] \in class THEN 1 + RunLen(text, i + 1, class) ELSE 0

\* length of the match of r'Page\s+\d+\s+of\s+\d+' at position i, 0 if none
\* (the quantifiers are greedy and the classes disjoint from what follows)
PageFooterLen(text, i) ==
    LET p1 == i + 4
        p2 == p1 + RunLen(text, p1, Spaces)
        p3 == p2 + RunLen(text, p2, Digits)
        p4 == p3 + RunLen(text, p3, Spaces)
        p5 == p4 + 2
        p6 == p5 + RunLen(text, p5, Spaces)
        p7 == p6 + RunLen(text, p6, Digits)
    IN  IF /\ LitAt(text, i, <<"P", "a", "g", "e">>) /\ p2 > p1 /\ p3 > p2 /\ p4 > p3
           /\ LitAt(text, p4, <<"o", "f">>) /\ p6 > p5 /\ p7 > p6
        THEN p7 - i ELSE 0

\* length of the match of a rule of clean_text at position i, 0 if none
MatchLen(rule, text, i) ==
    CASE rule = "page_footer" -> PageFooterLen(text, i)
      [] rule = "banner" -> IF LitAt(text, i, Confidential) THEN Len(Confidential)
                            ELSE IF LitAt(text, i, Proprietary) THEN Len(Proprietary)
                            ELSE 0
      [] rule = "replacement" -> IF LitAt(text, i, <<"U+FFFD">>) THEN 1 ELSE 0
      [] rule = "quotes" -> IF LitAt(text, i, <<"\"", "\"">>) THEN 2 ELSE 0
      [] rule = "apostrophes" -> IF LitAt(text, i, <<"'", "'">>) THEN 2 ELSE 0
      [] rule = "en_dash" -> IF LitAt(text, i, <<"U+2013">>) THEN 1 ELSE 0
      [] rule = "em_dash" -> IF LitAt(text, i, <<"U+2014">>) THEN 1 ELSE 0

\* re.sub(rule, repl, text) and str.replace(old, new): the matches taken
\* left to right, none overlapping, in one pass from position i
RECURSIVE Substitute(_, _, _, _)
Substitute(rule, repl, text, i) ==
    IF i > Len(text) THEN <<>>
    ELSE LET n == MatchLen(rule, text, i)
         IN  IF n > 0 THEN repl \o Substitute(rule, repl, text, i + n)
             ELSE <<text[i]>> \o Substitute(rule, repl, text, i + 1)

\* .replace('"', '"').replace('""', '"').replace('""', '"'): the first
\* replacement maps the ASCII quote to itself
NormalizeQuotes(rule, mark, text) ==
    Substitute(rule, <<mark>>, Substitute(rule, <<mark>>, text, 1), 1)

\* clean_text(text)
clean_text(text) ==
    IF text = <<>> THEN <<>>
    ELSE LET no_footer == Substitute("page_footer", <<>>, text, 1)
             no_banner == Substitute("banner", <<>>, no_footer, 1)
             collapsed == CollapseWhitespace(no_banner)
             no_artifact == Substitute("replacement", <<>>, collapsed, 1)
             quotes == NormalizeQuotes("quotes", "\"", no_artifact)
             apostrophes == NormalizeQuotes("apostrophes", "'", quotes)
             dashes == Substitute("em_dash", <<"-">>,
                           Substitute("en_dash", <<"-">>, apostrophes, 1), 1)
         IN  Strip(dashes)

\* the pieces the texts given to clean_text are put together from
CleanPieces ==
    {<<"a">>, <<" ">>, <<"a", " ">>, <<" ", "a">>, <<Newline>>, <<"U+FFFD">>,
     <<"\"">>, <<"\"", "\"">>, <<"'">>, <<"U+2013">>, <<"U+2014">>,
     <<"C", "o", "n">>, <<"f", "i", "d", "e", "n", "t", "i", "a", "l">>,
     Confidential, Proprietary,
     <<"P", "a", "g", "e", " ", "1">>, <<" ", "o", "f", Newline, "1", "1">>}

RECURSIVE Concat(_)
Concat(pieces) == IF pieces = <<>> THEN <<>> ELSE Head(pieces) \o Concat(Tail(pieces))
\* the texts of at most MaxCleanPieces pieces
CleanInputs == {Concat(ps) : ps \in SeqsUpTo(CleanPieces, MaxCleanPieces)}

\* -------------------------------------------------------- text extraction
\* what pytesseract.image_to_string(Image.open(path)) does for a file
OcrOutcomes ==
    {[kind |-> "text", text |-> t] : t \in SeqsUpTo(Chars, MaxOcrLen)}
        \cup {[kind |-> "ImportError", text |-> <<>>], [kind |-> "Exception", text |-> <<>>]}

\* extract_text_from_image(image_path)
extract_text_from_image(has_ocr, ocr) ==
    IF ~has_ocr THEN <<>>
    ELSE IF ocr.kind = "text" THEN ocr.text
    ELSE <<>>

\* page.extract_text() of one page: a text, nothing, or an exception
PageOutcomes ==
    {[raises |-> FALSE, text |-> t] : t \in {<<>>, <<"a">>}}
        \cup {[raises |-> TRUE, text |-> <<>>]}
\* what pdfplumber.open(path) gives for a file: it raises, or the pages
PdfOutcomes ==
    {[opens |-> FALSE, pages |-> <<>>]}
        \cup {[opens |-> TRUE, pages |-> ps] : ps \in SeqsUpTo(PageOutcomes, MaxPages)}

\* faulty variant: text started anew inside the try, an exception loses it
RECURSIVE PagesText_DropsOnFailure(_, _)
PagesText_DropsOnFailure(pages, text) ==
    IF pages = <<>> THEN text
    ELSE IF Head(pages).raises THEN <<>>
    ELSE IF Head(pages).text # <<>>
    THEN PagesText_DropsOnFailure(Tail(pages), text \o Head(pages).text \o <<Newline>>)
    ELSE PagesText_DropsOnFailure(Tail(pages), text)
\* the loop over pdf.pages: text accumulated until a page raises
RECURSIVE PagesText(_, _)
PagesText(pages, text) ==
    IF pages = <<>> THEN text
    ELSE IF Head(pages).raises THEN text
    ELSE IF Head(pages).text # <<>>
    THEN PagesText(Tail(pages), text \o Head(pages).text \o <<Newline>>)
    ELSE PagesText(Tail(pages), text)

\* extract_text_from_pdf(file_path)
extract_text_from_pdf(pdf) ==
    IF ~pdf.opens THEN <<>> ELSE PagesText(pdf.pages, <<>>)

\* --------------------------------------------------- extract_with_patterns
\* a map with key k set to v
Put(f, k, v) == [x \in DOMAIN f \cup {k} |-> IF x = k THEN v ELSE f[x]]
NoKeys == [x \in {} |-> <<>>]
Range(seq) == {seq[i] : i \in 1..Len(seq)}
\* the sequences over S of at most n elements, no element twice
DistinctSeqs(S, n) == {q \in SeqsUpTo(S, n) : Cardinality(Range(q)) = Len(q)}

\* self.patterns: document type -> field -> regular expression
patterns ==
    [invoice |->
        [invoice_number |-> "(?:invoice|inv)\\.?\\s*#?\\s*([A-Z0-9-]+)",
         date |-> "(?:date|invoice date):?\\s*(\\d{1,2}[/-]\\d{1,2}[/-]\\d{2,4})",
         due_date |-> "(?:due date|due):?\\s*(\\d{1,2}[/-]\\d{1,2}[/-]\\d{2,4})",
         total_amount |-> "(?:total|amount due|balance):?\\s*(\\$\\d+(?:\\.\\d{2})?)",
         tax |-> "(?:tax|vat):?\\s*(\\$\\d+(?:\\.\\d{2})?)",
         first_name |-> "(?:first name|given name):?\\s*([A-Z][a-z]+)",
         last_name |-> "(?:last name|surname|family name):?\\s*([A-Z][a-z]+)",
         email |-> "([a-zA-Z0-9._%+-]+@[a-zA-Z0-9.-]+\\.[a-zA-Z]{2,})",
         product_id |-> "(?:product id|product code|item #):?\\s*([A-Z0-9-]+)",
         qty |-> "(?:quantity|qty):?\\s*(\\d+)",
         amount |-> "(?:amount|price):?\\s*(\\$\\d+(?:\\.\\d{2})?)",
         invoice_date |-> "(?:invoice date|date issued):?\\s*(\\d{1,2}[/-]\\d{1,2}[/-]\\d{2,4})",
         address |-> "(\\d+\\s+[\\w\\s]+,?\\s*[A-Za-z\\s]+,?\\s*[A-Z]{2}\\s*\\d{5})",
         city |-> "(?:city):?\\s*([A-Za-z\\s]+)(?=\\s*[,]|\\s*[A-Z]{2})",
         stock_code |-> "(?:stock code|sku):?\\s*([A-Z0-9-]+)",
         job |-> "(?:job|project|work order):?\\s*([A-Z0-9-]+)"],
     receipt |->
        [date |-> "(?:date):?\\s*(\\d{1,2}[/-]\\d{1,2}[/-]\\d{2,4})",
         total |-> "(?:total|amount):?\\s*(\\$\\d+(?:\\.\\d{2})?)",
         payment_method |-> "(?:payment method|paid with):?\\s*([A-Za-z\\s]+)"],
     contract |->
        [contract_id |-> "(?:contract|agreement)\\s*#?\\s*([A-Z0-9-]+)",
         date |-> "(?:date|effective date):?\\s*(\\d{1,2}[/-]\\d{1,2}[/-]\\d{2,4})",
         parties |-> "(?:between|parties):?\\s*([A-Za-z0-9\\s,&]+)(?:\\s+and\\s+)([A-Za-z0-9\\s,&]+)",
         amount |-> "(?:amount|value):?\\s*(\\$\\d+(?:\\.\\d{2})?)",
         term |-> "(?:term|duration):?\\s*(\\d+\\s+(?:years?|months?|days?))",
         buyer |-> "(?:buyer|client):?\\s*([A-Za-z0-9\\s,&]+)",
         supplier |-> "(?:supplier|vendor):?\\s*([A-Za-z0-9\\s,&]+)"],
     contact |->
        [email |-> "([a-zA-Z0-9._%+-]+@[a-zA-Z0-9.-]+\\.[a-zA-Z]{2,})",
         phone |-> "(\\+?\\d{1,3}[-.\\s]?\\(?\\d{3}\\)?[-.\\s]?\\d{3}[-.\\s]?\\d{4})",
         website |-> "(https?://[^\\s]+)",
         name |-> "(?:name|contact):?\\s*([A-Z][a-z]+\\s+[A-Z][a-z]+)",
         company |-> "(?:company|firm|organization):?\\s*([A-Za-z0-9\\s&.,]+)",
         address |-> "(\\d+\\s+[\\w\\s]+,?\\s*[A-Za-z\\s]+,?\\s*[A-Z]{2}\\s*\\d{5})",
         zip_code |-> "\\b\\d{5}(?:-\\d{4})?\\b"],
     general |->
        [currency |-> "(\\$\\d+(?:,\\d{3})*(?:\\.\\d{2})?)",
         percentage |-> "(\\d+(?:\\.\\d+)?%)",
         date |-> "(\\d{1,2}[/-]\\d{1,2}[/-]\\d{2,4})"]]

\* A text is described by the places where a regular expression of the
\* table matches, in text order: the expression, the groups the match
\* captures, and whether the letters at that place are in another case than
\* the expression's, so that it matches only under re.IGNORECASE.
Place(pattern, groups, other_case) ==
    [pattern |-> pattern, groups |-> groups, other_case |-> other_case]

\* faulty variant: re.findall(pattern, text)
FindAll_CaseSensitive(pattern, text) ==
    LET found == SelectSeq(text, LAMBDA pl : pl.pattern = pattern /\ ~pl.other_case)
    IN  [i \in 1..Len(found) |-> found[i].groups]
\* re.findall(pattern, text, re.IGNORECASE)
FindAll(pattern, text) ==
    LET found == SelectSeq(text, LAMBDA pl : pl.pattern = pattern)
    IN  [i \in 1..Len(found) |-> found[i].groups]

\* list(set(matches)): the distinct matches, in any order
ListOfSet(matches) ==
    {q \in DistinctSeqs(Range(matches), Len(matches)) : Range(q) = Range(matches)}

\* every result extract_with_patterns(text, doc_type) can give
extract_with_patterns(text, doc_type) ==
    LET rules == IF doc_type \notin DOMAIN patterns THEN patterns["general"]
                 ELSE patterns[doc_type]
        fields == {field \in DOMAIN rules : FindAll(rules[field], text) # <<>>}
    IN  {results \in [fields -> UNION {ListOfSet(FindAll(rules[f], text)) : f \in fields}] :
            \A field \in fields : results[field] \in ListOfSet(FindAll(rules[field], text))}

\* ---------------------------------------------------- extract_contact_info

\* strings the contact phone rule matches
RawPhones == {"212-555-0123", "123-456-7890", "+1 999 999 9999"}
\* phonenumbers.parse(phone, "US") raises, or gives a number which
\* phonenumbers.is_valid_number accepts or rejects
PhoneVerdicts == {"unparseable", "valid", "invalid"}
\* an entry of the phone list: the matched string, or the result of
\* phonenumbers.format_number(parsed_phone, INTERNATIONAL) for it
RawForm(phone) == [form |-> "raw", of |-> phone]
InternationalForm(phone) == [form |-> "international", of |-> phone]

\* the loop over contact_patterns.get('phone', [])
RECURSIVE EnhancePhones(_, _)
EnhancePhones(phones, verdict) ==
    IF phones = <<>> THEN <<>>
    ELSE LET phone == Head(phones)
             rest == EnhancePhones(Tail(phones), verdict)
         IN  CASE verdict[phone] = "unparseable" -> <<RawForm(phone)>> \o rest
               [] verdict[phone] = "valid" -> <<InternationalForm(phone)>> \o rest
               [] verdict[phone] = "invalid" -> rest

\* a contact block as matched: letters, with or without a leading blank
Letters(n) == [i \in 1..n |-> "a"]
Blocks == {Letters(min_block_len), <<" ">> \o Letters(min_block_len),
           Letters(min_block_len + 1)}

\* the loop over contact_blocks
RECURSIVE CleanBlocks(_)
CleanBlocks(blocks) ==
    IF blocks = <<>> THEN <<>>
    ELSE LET block == Strip(CollapseWhitespace(Head(blocks)))
         IN  (IF Len(block) > min_block_len THEN <<block>> ELSE <<>>)
                 \o CleanBlocks(Tail(blocks))

\* what extract_with_patterns(text, "contact") can give: the phone list in
\* the order list(set(matches)) happens to have, other fields beside it
ContactPatterns ==
    LET phones == {NoKeys} \cup
                    {Put(NoKeys, "phone", [i \in 1..Len(q) |-> RawForm(q[i])]) :
                        q \in DistinctSeqs(RawPhones, MaxPhones) \ {<<>>}}
    IN  phones \cup {Put(f, "email", <<"a@b.co">>) : f \in phones}

\* extract_contact_info(text), from the result of extract_with_patterns for
\* the text, the verdict of the phonenumbers library on each matched string
\* and the contact blocks matched in the text
extract_contact_info(contact_patterns, verdict, contact_blocks) ==
    LET matched == IF "phone" \in DOMAIN contact_patterns
                   THEN [i \in 1..Len(contact_patterns["phone"]) |->
                            contact_patterns["phone"][i].of]
                   ELSE <<>>
        enhanced_phones == EnhancePhones(matched, verdict)
        with_phones == IF enhanced_phones # <<>>
                       THEN Put(contact_patterns, "phone", enhanced_phones)
                       ELSE contact_patterns
        cleaned_blocks == CleanBlocks(contact_blocks)
    IN  IF cleaned_blocks # <<>>
        THEN Put(with_phones, "contact_blocks", cleaned_blocks)
        ELSE with_phones

\* ------------------------------------------------- extract_invoice_details
\* the length of the word that starts at position i
RECURSIVE WordLen(_, _)
WordLen(text, i) ==
    IF i <= Len(text) /\ ~IsSpace(text[i]) THEN 1 + WordLen(text, i + 1) ELSE 0

\* str.split()
RECURSIVE Split(_)
Split(text) ==
    LET t == LStrip(text)
        n == WordLen(t, 1)
    IN  IF t = <<>> THEN <<>>
        ELSE <<SubSeq(t, 1, n)>> \o Split(SubSeq(t, n + 1, Len(t)))

\* [ent.text for ent in doc.ents if ent.label_ in labels]
TextsOf(ents, labels) ==
    LET chosen == SelectSeq(ents, LAMBDA ent : ent.label \in labels)
    IN  [i \in 1..Len(chosen) |-> chosen[i].text]

\* doc.ents of self.nlp(text): spans in text order, each a text and a label
Spans(texts, labels) == [text : texts, label : labels]
\* entity texts of one, two and three words
OneWord == <<"A">>
TwoWords == <<"B", " ", "S">>
ThreeWords == <<"C", " ", "A", " ", "J">>

\* faulty variant: last_name assigned from every person entity of two or
\* more tokens, whether or not the key is present
RECURSIVE SplitNames_LastWins(_, _)
SplitNames_LastWins(person_entities, pattern_results) ==
    IF person_entities = <<>> THEN pattern_results
    ELSE LET name_parts == Split(Head(person_entities))
             first == IF "first_name" \notin DOMAIN pattern_results
                      THEN Put(pattern_results, "first_name", <<name_parts[1]>>)
                      ELSE pattern_results
             last == Put(first, "last_name", <<name_parts[Len(name_parts)]>>)
         IN  SplitNames_LastWins(Tail(person_entities),
                                 IF Len(name_parts) >= 2 THEN last ELSE pattern_results)

\* the loop over person_entities
RECURSIVE SplitNames(_, _)
SplitNames(person_entities, pattern_results) ==
    IF person_entities = <<>> THEN pattern_results
    ELSE LET name_parts == Split(Head(person_entities))
             first == IF "first_name" \notin DOMAIN pattern_results
                      THEN Put(pattern_results, "first_name", <<name_parts[1]>>)
                      ELSE pattern_results
             last == IF "last_name" \notin DOMAIN first
                     THEN Put(first, "last_name", <<name_parts[Len(name_parts)]>>)
                     ELSE first
         IN  SplitNames(Tail(person_entities),
                        IF Len(name_parts) >= 2 THEN last ELSE pattern_results)

\* what extract_with_patterns(text, "invoice") can give for the fields
\* extract_invoice_details looks at
InvoicePatterns ==
    {[k \in keys |-> <<<<"Z">>>>] : keys \in SUBSET {"first_name", "last_name", "city"}}

\* extract_invoice_details(text), from the result of extract_with_patterns
\* for the text and the entities of the text
extract_invoice_details(pattern_results, ents) ==
    LET person_entities == TextsOf(ents, {"PERSON"})
        named == SplitNames(person_entities, pattern_results)
        location_entities == TextsOf(ents, {"GPE", "LOC"})
    IN  IF location_entities # <<>> /\ "city" \notin DOMAIN named
        THEN Put(named, "city", location_entities)
        ELSE named

\* --------------------------------------------------------- extract_entities
\* entities = {"PERSON": [], "ORG": [], "GPE": [], "DATE": [], "MONEY": [], "PRODUCT": []}
EntityKinds == {"PERSON", "ORG", "GPE", "DATE", "MONEY", "PRODUCT"}

\* faulty variant: every span counted as new
Seen_Never(text, list) == FALSE
\* not (ent.text not in entities[ent.label_])
Seen(text, list) == text \in Range(list)

\* the loop over doc.ents
RECURSIVE CollectEntities(_, _)
CollectEntities(ents, entities) ==
    IF ents = <<>> THEN entities
    ELSE LET ent == Head(ents)
         IN  CollectEntities(Tail(ents),
                 IF ent.label \in DOMAIN entities /\ ~Seen(ent.text, entities[ent.label])
                 THEN [entities EXCEPT ![ent.label] = Append(@, ent.text)]
                 ELSE entities)

\* extract_entities(text), from the entities of the text
extract_entities(ents) == CollectEntities(ents, [kind \in EntityKinds |-> <<>>])

\* -------------------------------------------- extract_document_holder_name
None == [none |-> TRUE, value |-> <<>>]
Some(v) == [none |-> FALSE, value |-> v]

\* text.find(name): the offset of the first occurrence, -1 if there is none
Find(text, name) ==
    LET at == {i \in 0..Len(text) : LitAt(text, i + 1, name)}
    IN  IF at = {} THEN -1 ELSE CHOOSE i \in at : \A j \in at : i <= j

\* max(0, 1 - position / len(text)) if position >= 0 else 0, in units of
\* 1 / len(text): the scores of one call share that denominator
Score(text, name) ==
    LET position == Find(text, name)
    IN  IF position >= 0
        THEN (IF Len(text) - position > 0 THEN Len(text) - position ELSE 0)
        ELSE 0

\* faulty variant: both conditions of the filter left out
LikelyName_Any(name) == TRUE
\* len(name.split()) >= 2 and len(name) > 4
LikelyName(name) == Len(Split(name)) >= min_name_tokens /\ Len(name) > min_name_len

\* scored_names.sort(key=lambda x: x[1], reverse=True): a stable sort, an
\* element goes behind those of the same or a higher score
RECURSIVE InsertByScore(_, _, _)
InsertByScore(name, sorted, text) ==
    IF sorted = <<>> THEN <<name>>
    ELSE IF Score(text, Head(sorted)) >= Score(text, name)
    THEN <<Head(sorted)>> \o InsertByScore(name, Tail(sorted), text)
    ELSE <<name>> \o sorted
RECURSIVE SortByScore(_, _)
SortByScore(scored_names, text) ==
    IF scored_names = <<>> THEN <<>>
    ELSE InsertByScore(scored_names[Len(scored_names)],
                       SortByScore(SubSeq(scored_names, 1, Len(scored_names) - 1), text),
                       text)

\* every result extract_document_holder_name(text) can give, from the names
\* its six rules capture in the text and the PERSON entities of the text
extract_document_holder_name(text, names, ner_names) ==
    {LET filtered_names == SelectSeq(all_names, LikelyName)
         sorted == SortByScore(filtered_names, text)
     IN  [candidate_names |-> sorted,
          primary_name |-> IF sorted # <<>> THEN Some(sorted[1]) ELSE None] :
        all_names \in ListOfSet(names \o ner_names)}

\* ---------------------------------------------------------- parse_document
ImageExtensions == {".jpg", ".jpeg", ".png", ".bmp", ".tiff"}
Extensions == {".pdf", ".png", ".PNG"}
\* str.lower() on the extensions above
Lower(ext) == IF ext = ".PNG" THEN ".png" ELSE ext
\* file_path.lower().endswith(('.jpg', '.jpeg', '.png', '.bmp', '.tiff'))
IsImagePath(ext) == Lower(ext) \in ImageExtensions

\* a file: the extension of its path and what the extractor its path selects
\* gets out of it
Files ==
    {[ext |-> e, read |-> r] : e \in {x \in Extensions : IsImagePath(x)}, r \in OcrOutcomes}
        \cup {[ext |-> e, read |-> r] : e \in {x \in Extensions : ~IsImagePath(x)}, r \in PdfOutcomes}

\* requested types: one with its own extraction, the default, an unknown one
DocTypes == {"invoice", "general", "memo"}

\* the steps of parse_document after text extraction, in order
StepsAfterPredict ==
    <<"patterns", "extract_contact_info", "extract_document_holder_name",
      "extract_entities", "extract_features", "assemble">>
\* the steps in which an exception can reach parse_document's except clause
ParseFaults == {"none", "clean_text"} \cup {StepsAfterPredict[i] : i \in 1..Len(StepsAfterPredict)}

NoTextError == "No text could be extracted from the document"
\* faulty variant: the empty-text check left out
NoText_Skipped(raw_text) == FALSE
\* if not raw_text:
NoText(raw_text) == raw_text = <<>>

\* faulty variant: the except clause re-raises
OnException_Propagates(e, ts) == Raised(e)
\* except Exception as e: return {"success": False, "error": str(e), ...}
OnException(e, ts) ==
    Returned([success |-> FALSE, error |-> e, extraction_time |-> ts])

\* faulty variant: the cut without the ellipsis
Preview_NoEllipsis(cleaned_text) ==
    SubSeq(cleaned_text, 1, Min(Len(cleaned_text), preview_chars))
\* cleaned_text[:1000] + "..." if len(cleaned_text) > 1000 else cleaned_text
Preview(cleaned_text) ==
    IF Len(cleaned_text) > preview_chars
    THEN SubSeq(cleaned_text, 1, preview_chars) \o <<".", ".", ".">>
    ELSE cleaned_text

\* faulty variant: the prediction taken whether or not it was asked for
ResolvedType_Always(s, doc_type, use_ml, prediction) ==
    IF ~prediction.raised THEN prediction.value ELSE doc_type
\* if use_ml and self.is_trained: try predict_document_type except: warning
ResolvedType(s, doc_type, use_ml, prediction) ==
    IF use_ml /\ s.is_trained /\ ~prediction.raised THEN prediction.value ELSE doc_type

\* the prediction record of a parse_document call that did not call
\* predict_document_type
NotAttempted == [raised |-> FALSE, value |-> "not attempted"]

\* faulty variant: the invoice branch left out
PatternExtractor_Plain(doc_type) ==
    [call |-> "extract_with_patterns", doc_type |-> doc_type]
\* if doc_type == "invoice": extract_invoice_details else extract_with_patterns
PatternExtractor(doc_type) ==
    IF doc_type = "invoice"
    THEN [call |-> "extract_invoice_details", doc_type |-> "invoice"]
    ELSE [call |-> "extract_with_patterns", doc_type |-> doc_type]

\* the dict parse_document returns when every step went through
Assembled(doc_type, cleaned_text, ts) ==
    [success |-> TRUE,
     document_type |-> doc_type,
     pattern_extraction |-> PatternExtractor(doc_type),
     contact_info |-> [call |-> "extract_contact_info"],
     name_info |-> [call |-> "extract_document_holder_name"],
     entities |-> [call |-> "extract_entities"],
     ml_features |-> [call |-> "extract_features"],
     cleaned_text |-> Preview(cleaned_text),
     extraction_time |-> ts]

\* faulty variant: a parse that marks the classifier untrained
ReadOnly_Untrains(s) == [s EXCEPT !.is_trained = FALSE]
\* the ClassifierState after a step of parse_document: it assigns no
\* attribute of self
ReadOnly(s) == s

RECURSIVE UpTo(_, _)
\* the steps of a plan run until `fault` raises, the raising one included
UpTo(plan, fault) ==
    IF plan = <<>> THEN <<>>
    ELSE IF Head(plan) = fault THEN <<fault>>
    ELSE <<Head(plan)>> \o UpTo(Tail(plan), fault)

\* parse_document(file_path, doc_type, use_ml) on a parser in state s:
\* the result and the steps run.  fault is the step that raises (if any),
\* prediction how predict_document_type ends if it is called.  The extract
\* record keeps the arguments of the call and how the prediction ended.
parse_document(s, has_ocr, file, doc_type, use_ml, fault, prediction, ts) ==
    LET image == IsImagePath(file.ext)
        raw_text == IF image THEN extract_text_from_image(has_ocr, file.read)
                    ELSE extract_text_from_pdf(file.read)
        cleaned_text == clean_text(raw_text)
        resolved == ResolvedType(s, doc_type, use_ml, prediction)
        plan == <<"clean_text">>
                \o (IF use_ml /\ s.is_trained THEN <<"predict_document_type">> ELSE <<>>)
                \o StepsAfterPredict
        ran == IF fault = "none" THEN plan ELSE UpTo(plan, fault)
        attempted == ~NoText(raw_text)
                        /\ \E i \in 1..Len(ran) : ran[i] = "predict_document_type"
        extract == [step |-> IF image THEN "extract_text_from_image" ELSE "extract_text_from_pdf",
                    ext |-> file.ext, read |-> file.read, out |-> raw_text,
                    doc_type |-> doc_type, use_ml |-> use_ml,
                    predict |-> IF attempted THEN prediction ELSE NotAttempted]
    IN  IF NoText(raw_text)
        THEN [result |-> Returned([success |-> FALSE, error |-> NoTextError]),
              outcome |-> "no_text", extract |-> extract, steps |-> <<>>]
        ELSE IF fault # "none"
        THEN [result |-> OnException(fault, ts),
              outcome |-> "exception", extract |-> extract, steps |-> ran]
        ELSE [result |-> Returned(Assembled(resolved, cleaned_text, ts)),
              outcome |-> "ok", extract |-> extract, steps |-> ran]


\* ----------------------------------------------------------- evaluate_model
\* doc.get(key) of a key that is missing or holds an empty value
NoValue == ""
\* str(None), as the f-string of the confusion key writes it
NoneStr == "None"

\* what evaluate_model takes from one parse_document call: whether it
\* raised, and result.get('document_type')
Parsed(result) ==
    [raised |-> result.raised,
     document_type |-> IF ~result.raised /\ "document_type" \in DOMAIN result.value
                       THEN result.value.document_type ELSE NoneStr]

\* f"{true_label}_{predicted_label}"; no label of Labels holds an underscore,
\* so the key is as good as the pair
ConfusionKey(true_label, predicted_label) == <<true_label, predicted_label>>

\* faulty variant: the quotient cut off instead of rounded
RoundDiv_Floor(n, d) == n \div d
\* n / d rounded to the nearest integer; a tie needs a quotient that ends in
\* .5, which correct * 10000 / total has for no total below 32
RoundDiv(n, d) == (2 * n + d) \div (2 * d)

\* round((correct / total) * 100 if total > 0 else 0, 2), in hundredths
Accuracy(correct_predictions, total_documents) ==
    IF total_documents > 0 THEN RoundDiv(correct_predictions * 10000, total_documents)
    ELSE 0

\* the loop over test_documents: correct_predictions and confusion_data
RECURSIVE Tally(_, _)
Tally(test_documents, tally) ==
    IF test_documents = <<>> THEN tally
    ELSE LET doc == Head(test_documents)
             true_label == doc.true_document_type
             predicted_label == doc.parsed.document_type
             key == ConfusionKey(true_label, predicted_label)
             counted ==
                 [correct_predictions |->
                      tally.correct_predictions + (IF predicted_label = true_label THEN 1 ELSE 0),
                  confusion_data |->
                      Put(tally.confusion_data, key,
                          (IF key \in DOMAIN tally.confusion_data
                           THEN tally.confusion_data[key] ELSE 0) + 1)]
         IN  Tally(Tail(test_documents),
                   IF true_label = NoValue \/ doc.file_path = NoValue THEN tally
                   ELSE IF doc.parsed.raised THEN tally
                   ELSE counted)

\* evaluate_model(test_documents) on a parser in state s; each document
\* carries what parse_document(file_path, use_ml=True) gives for its file
evaluate_model(s, test_documents) ==
    LET total_documents == Len(test_documents)
        tally == Tally(test_documents, [correct_predictions |-> 0, confusion_data |-> NoKeys])
    IN  IF ~s.is_trained THEN Returned([error |-> "Model not trained"])
        ELSE IF ~s.vectorizer.fitted THEN Raised("NotFittedError")
        ELSE IF ~s.label_encoder.fitted THEN Raised("AttributeError")
        ELSE Returned(
                [accuracy |-> Accuracy(tally.correct_predictions, total_documents),
                 correct_predictions |-> tally.correct_predictions,
                 total_documents |-> total_documents,
                 confusion_data |-> tally.confusion_data,
                 vectorizer_features |-> NumFeatures(s.vectorizer.vocabulary),
                 model_classes |-> s.label_encoder.classes,
                 training_samples |-> s.last_training_samples])

\* ------------------------------------------------------------------ state
VARIABLES
    vectorizer,             \* self.vectorizer
    classifier,             \* self.classifier
    label_encoder,          \* self.label_encoder
    is_trained,             \* self.is_trained
    training_history,       \* self.training_history
    last_training_samples,  \* self.last_training_samples
    disk,                   \* the model artifact file at the path in use
    now,                    \* datetime.now()
    ret,                    \* how the last call on the parser ended
    universe,               \* document_type values of the last successful train
                            \* behind the current fit
    disk_universe,          \* the same for the fit stored in the artifact
    HAS_OCR,                \* module flag: pytesseract and PIL were imported
    trace,                  \* the steps the last parse_document call ran
    args,                   \* the argument of the last call of a text function
    threads                 \* the parse_document calls in progress, by caller

cls == <<vectorizer, classifier, label_encoder, is_trained, training_history,
         last_training_samples>>
vars == <<vectorizer, classifier, label_encoder, is_trained, training_history,
          last_training_samples, disk, now, ret, universe, disk_universe,
          HAS_OCR, trace, args, threads>>
\* what a text function leaves alone
parser == <<vectorizer, classifier, label_encoder, is_trained, training_history,
            last_training_samples, disk, now, universe, disk_universe,
            HAS_OCR, trace, threads>>

\* the ClassifierState of the parser instance
State ==
    [vectorizer |-> vectorizer,
     classifier |-> classifier,
     label_encoder |-> label_encoder,
     is_trained |-> is_trained,
     training_history |-> training_history,
     last_training_samples |-> last_training_samples]

Becomes(s) ==
    /\ vectorizer' = s.vectorizer
    /\ classifier' = s.classifier
    /\ label_encoder' = s.label_encoder
    /\ is_trained' = s.is_trained
    /\ training_history' = s.training_history
    /\ last_training_samples' = s.last_training_samples

\* a call's record: the operation, how it ended, what it raised or returned,
\* and for train_model the len(df) it was given and whether it warned
Ret(op, outcome, result, samples, warned) ==
    [op |-> op, outcome |-> outcome, raised |-> result.raised, value |-> result.value,
     samples |-> samples, warned |-> warned]

\* the callers that share the parser
Callers == {"a", "b"}
\* a caller with no parse_document call in progress
Idle ==
    [pc |-> "idle", file |-> [ext |-> "", read |-> <<>>], doc_type |-> "", use_ml |-> FALSE,
     fault |-> "none", resolved |-> "", result |-> Returned("None")]
NoCalls == [t \in Callers |-> Idle]

\* a parser as constructed without a model path, nothing called on it yet
Constructed ==
    /\ vectorizer = Fresh.vectorizer
    /\ classifier = Fresh.classifier
    /\ label_encoder = Fresh.label_encoder
    /\ is_trained = Fresh.is_trained
    /\ training_history = Fresh.training_history
    /\ last_training_samples = Fresh.last_training_samples
    /\ disk = Missing
    /\ now = 0
    /\ ret = Ret("init", "fresh", Returned("None"), 0, FALSE)
    /\ universe = {}
    /\ disk_universe = {}
    /\ HAS_OCR = TRUE
    /\ trace = <<>>
    /\ threads = NoCalls

Init == Constructed /\ args = <<>>

\* DocumentParser(model_path): a new parser instance takes the place of the
\* current one; with a model path the constructor calls load_model
DocumentParser_init ==
    \E with_path \in BOOLEAN, readable \in BOOLEAN :
        LET r == IF with_path THEN load_model(Fresh, disk, readable)
                 ELSE [state |-> Fresh, outcome |-> "fresh"]
        IN  /\ Becomes(r.state)
            /\ ret' = Ret("init", r.outcome, Returned("None"), 0, FALSE)
            /\ universe' = IF r.outcome = "loaded" THEN disk_universe ELSE {}
            /\ UNCHANGED <<disk, now, disk_universe, HAS_OCR, trace, args, threads>>

Succeeded(outcome) == outcome \in {"primary", "fallback"}

\* the decision functions a classifier fitted on df can have
Decisions(df) ==
    [Texts -> 0..(IF LabelsOf(df) = {} THEN 0 ELSE Cardinality(LabelsOf(df)) - 1)]

\* every way train_model(df) can end in state s at time ts
TrainResults(s, df, ts) ==
    {train_model(s, df, fault, keep, decision, ts) :
        fault \in Faults, keep \in BOOLEAN, decision \in Decisions(df)}

TrainModel ==
    /\ now < MaxClock
    /\ \E df \in DataFrames : \E r \in TrainResults(State, df, now + 1) :
        /\ Becomes(r.state)
        /\ now' = now + 1
        /\ ret' = Ret("train", r.outcome, Returned("self"), Len_df(df), r.warned)
        /\ universe' = IF Succeeded(r.outcome) THEN LabelsOf(df) ELSE universe
        /\ UNCHANGED <<disk, disk_universe, HAS_OCR, trace, args, threads>>

PredictDocumentType ==
    \E text \in Texts : \E result \in predict_document_type(State, text) :
        /\ ret' = Ret("predict", "done", result, 0, FALSE)
        /\ UNCHANGED <<cls, disk, now, universe, disk_universe, HAS_OCR, trace, args, threads>>

SaveModel ==
    LET r == save_model(State, disk)
    IN  /\ disk' = r.file
        /\ disk_universe' = IF r.result.raised THEN disk_universe ELSE universe
        /\ ret' = Ret("save", "done", r.result, 0, FALSE)
        /\ UNCHANGED <<cls, now, universe, HAS_OCR, trace, args, threads>>

LoadModel ==
    \E readable \in BOOLEAN :
        LET r == load_model(State, disk, readable)
        IN  /\ Becomes(r.state)
            /\ ret' = Ret("load", r.outcome, Returned("None"), 0, FALSE)
            /\ universe' = CASE r.outcome = "loaded" -> disk_universe
                             [] r.outcome = "corrupt" -> {}
                             [] OTHER -> universe
            /\ UNCHANGED <<disk, now, disk_universe, HAS_OCR, trace, args, threads>>

Next ==
    \/ DocumentParser_init
    \/ TrainModel
    \/ PredictDocumentType
    \/ SaveModel
    \/ LoadModel

Spec == Init /\ [][Next]_vars

\* -------------------------------------------------- parsing with a parser
\* the classifier states a parser can be in after at most two train_model
\* calls on a fresh instance
ParserStates ==
    LET once == UNION {{r.state : r \in TrainResults(Fresh, df, 1)} : df \in DataFrames}
        twice == UNION {{r.state : r \in TrainResults(s, df, 2)} : s \in once, df \in DataFrames}
    IN  {Fresh} \cup once \cup twice

InitParse ==
    /\ \E s \in ParserStates :
        /\ vectorizer = s.vectorizer
        /\ classifier = s.classifier
        /\ label_encoder = s.label_encoder
        /\ is_trained = s.is_trained
        /\ training_history = s.training_history
        /\ last_training_samples = s.last_training_samples
    /\ disk = Missing
    /\ now = 2
    /\ ret = Ret("init", "fresh", Returned("None"), 0, FALSE)
    /\ universe = {}
    /\ disk_universe = {}
    /\ HAS_OCR \in BOOLEAN
    /\ trace = <<>>
    /\ args = <<>>
    /\ threads = NoCalls

\* every way parse_document(file, doc_type, use_ml) can end
ParseResults(s, has_ocr, file, doc_type, use_ml, ts) ==
    {parse_document(s, has_ocr, file, doc_type, use_ml, fault, prediction, ts) :
        fault \in ParseFaults,
        prediction \in UNION {predict_document_type(s, text) : text \in Texts}}

\* result = parser.parse_document(...): the caller takes the result before
\* it calls again
ResultTaken ==
    /\ ret.op = "parse"
    /\ ret' = Ret("idle", "taken", Returned("None"), 0, FALSE)
    /\ trace' = <<>>
    /\ UNCHANGED <<cls, disk, now, universe, disk_universe, HAS_OCR, args, threads>>

ParseDocument ==
    /\ ret.op # "parse"
    /\ \E file \in Files, doc_type \in DocTypes, use_ml \in BOOLEAN :
       \E r \in ParseResults(State, HAS_OCR, file, doc_type, use_ml, now) :
        /\ ret' = Ret("parse", r.outcome, r.result, 0, FALSE)
        /\ trace' = <<r.extract>> \o r.steps
        /\ UNCHANGED <<cls, disk, now, universe, disk_universe, HAS_OCR, args, threads>>

NextParse ==
    \/ ParseDocument
    \/ ResultTaken

SpecParse == InitParse /\ [][NextParse]_vars


\* --------------------------------------------------------------- clean_text
InitClean ==
    /\ Constructed
    /\ args \in CleanInputs

\* cleaned = self.clean_text(text)
CleanText ==
    /\ ret.op = "init"
    /\ ret' = Ret("clean_text", "done", Returned(clean_text(args)), 0, FALSE)
    /\ UNCHANGED <<parser, args>>

\* self.clean_text(cleaned): the cleaned text cleaned once more
CleanAgain ==
    /\ ret.op = "clean_text"
    /\ args' = ret.value
    /\ ret' = Ret("clean_again", "done", Returned(clean_text(ret.value)), 0, FALSE)
    /\ UNCHANGED parser

SpecClean == InitClean /\ [][CleanText \/ CleanAgain]_vars

\* ----------------------------------------------------- extract_contact_info
InitContact ==
    /\ Constructed
    /\ args \in [contact_patterns : ContactPatterns,
                 verdict : [RawPhones -> PhoneVerdicts],
                 contact_blocks : SeqsUpTo(Blocks, 1)]

\* contact_info = self.extract_contact_info(cleaned_text)
ExtractContactInfo ==
    /\ ret.op = "init"
    /\ ret' = Ret("extract_contact_info", "done",
                  Returned(extract_contact_info(args.contact_patterns, args.verdict,
                                                args.contact_blocks)), 0, FALSE)
    /\ UNCHANGED <<parser, args>>

SpecContact == InitContact /\ [][ExtractContactInfo]_vars

\* -------------------------------------------------- extract_invoice_details
\* doc.ents: persons of one to three words, places, an organisation
InitInvoice ==
    /\ Constructed
    /\ args \in [pattern_results : InvoicePatterns,
                 ents : SeqsUpTo(Spans({OneWord, TwoWords, ThreeWords}, {"PERSON"})
                                    \cup Spans({OneWord}, {"GPE", "LOC", "ORG"})
                                    \cup Spans({TwoWords}, {"GPE"}),
                                 MaxEnts)]

\* pattern_results = self.extract_invoice_details(cleaned_text)
ExtractInvoiceDetails ==
    /\ ret.op = "init"
    /\ ret' = Ret("extract_invoice_details", "done",
                  Returned(extract_invoice_details(args.pattern_results, args.ents)),
                  0, FALSE)
    /\ UNCHANGED <<parser, args>>

SpecInvoice == InitInvoice /\ [][ExtractInvoiceDetails]_vars

\* ---------------------------------------------------- extract_with_patterns
\* the places of the texts: a date, written after the word "date" or not, a
\* percentage, the two parties of a contract, a zip code
PatternPlaces ==
    {Place(patterns["general"]["date"], g, FALSE) : g \in {<<"1/2/24">>, <<"3/4/25">>}}
        \cup {Place(patterns["receipt"]["date"], g, c) :
                    g \in {<<"1/2/24">>, <<"3/4/25">>}, c \in BOOLEAN}
        \cup {Place(patterns["general"]["percentage"], <<"5%">>, FALSE)}
        \cup {Place(patterns["contract"]["parties"], <<"Acme", "Bolt">>, c) : c \in BOOLEAN}
        \cup {Place(patterns["contact"]["zip_code"], <<"12345">>, FALSE)}

\* the doc_type arguments: the five of the table and two others
InitPatterns ==
    /\ Constructed
    /\ args \in [text : SeqsUpTo(PatternPlaces, MaxMatches),
                 doc_type : DOMAIN patterns \cup {"memo", "Invoice"}]

\* self.extract_with_patterns(text, doc_type)
ExtractWithPatterns ==
    /\ ret.op = "init"
    /\ \E results \in extract_with_patterns(args.text, args.doc_type) :
           ret' = Ret("extract_with_patterns", "done", Returned(results), 0, FALSE)
    /\ UNCHANGED <<parser, args>>

SpecPatterns == InitPatterns /\ [][ExtractWithPatterns]_vars

\* --------------------------------------------- extract_document_holder_name
\* names as they stand in a text: two words of five characters, the same
\* with one letter more, two words of three characters, one word of five
HolderNames ==
    {<<"A", "l", " ", "B", "o">>, <<"A", "l", " ", "B", "o", "b">>,
     <<"A", " ", "B">>, <<"A", "l", "i", "c", "e">>}

RECURSIVE Join(_)
\* " ".join(pieces)
Join(pieces) ==
    IF pieces = <<>> THEN <<>>
    ELSE IF Len(pieces) = 1 THEN pieces[1]
    ELSE Head(pieces) \o <<" ">> \o Join(Tail(pieces))

\* texts in which some of the names stand, each once, in any order
HolderTexts == {Join(q) : q \in DistinctSeqs(HolderNames, Cardinality(HolderNames))}
\* the names of HolderNames that occur in a text
NamesIn(text) == {name \in HolderNames : Find(text, name) >= 0}

InitHolder ==
    /\ Constructed
    /\ \E text \in HolderTexts :
        \E names \in SeqsUpTo(NamesIn(text), 1), ner_names \in SeqsUpTo(NamesIn(text), MaxNames) :
           args = [text |-> text, names |-> names, ner_names |-> ner_names]

\* name_info = self.extract_document_holder_name(cleaned_text)
ExtractDocumentHolderName ==
    /\ ret.op = "init"
    /\ \E name_info \in extract_document_holder_name(args.text, args.names, args.ner_names) :
           ret' = Ret("extract_document_holder_name", "done", Returned(name_info), 0, FALSE)
    /\ UNCHANGED <<parser, args>>

SpecHolder == InitHolder /\ [][ExtractDocumentHolderName]_vars

\* ---------------------------------------------------------- extract_entities
\* doc.ents: spans of the six kinds and of one the function does not collect
InitEntities ==
    /\ Constructed
    /\ args \in SeqsUpTo(Spans({OneWord, TwoWords}, EntityKinds \cup {"LOC"}), MaxEnts)

\* entities = self.extract_entities(cleaned_text)
ExtractEntities ==
    /\ ret.op = "init"
    /\ ret' = Ret("extract_entities", "done", Returned(extract_entities(args)), 0, FALSE)
    /\ UNCHANGED <<parser, args>>

SpecEntities == InitEntities /\ [][ExtractEntities]_vars

\* ----------------------------------------------------- extract_text_from_pdf
\* the PDF files extract_text_from_pdf is applied to by itself: pdfplumber
\* fails to open the file, or gives pages of which each has a text, has none
\* (page.extract_text() returns None or '') or raises
InitPdf ==
    /\ Constructed
    /\ args \in {[opens |-> FALSE, pages |-> <<>>]}
            \cup {[opens |-> TRUE, pages |-> ps] :
                      ps \in SeqsUpTo({[raises |-> FALSE, text |-> t] : t \in SeqsUpTo(Chars, MaxPageLen)}
                                         \cup {[raises |-> TRUE, text |-> <<>>]},
                                     MaxPages)}

\* text = self.extract_text_from_pdf(file_path)
ExtractTextFromPdf ==
    /\ ret.op = "init"
    /\ ret' = Ret("extract_text_from_pdf", "done", Returned(extract_text_from_pdf(args)), 0, FALSE)
    /\ UNCHANGED <<parser, args>>

SpecPdf == InitPdf /\ [][ExtractTextFromPdf]_vars

\* ----------------------------------------------------------- corpus loaders
\* load_training_data_from_csv(csv_path) for a file with the columns text
\* and document_type.  pd.read_csv reads an empty cell as NaN and every
\* other cell as the string it holds; the rows kept are
\* df[df['text'].notna() & (df['text'].str.len() > 0)]
load_training_data_from_csv(rows) ==
    LET df == [i \in 1..Len(rows) |->
                  [text |-> [na |-> rows[i].text = <<>>, str |-> rows[i].text],
                   document_type |-> rows[i].document_type]]
        kept == SelectSeq(df, LAMBDA row : ~row.text.na /\ Len(row.text.str) > 0)
    IN  [i \in 1..Len(kept) |->
            [text |-> kept[i].text.str, document_type |-> kept[i].document_type]]

\* load_training_data_from_images(image_dir, document_type): the files the
\* globs find, each read by OCR and kept if text.strip() is not empty
RECURSIVE load_training_data_from_images(_, _, _)
load_training_data_from_images(has_ocr, images, document_type) ==
    IF ~has_ocr \/ images = <<>> THEN <<>>
    ELSE LET text == extract_text_from_image(has_ocr, Head(images))
             rest == load_training_data_from_images(has_ocr, Tail(images), document_type)
         IN  IF Strip(text) # <<>>
             THEN <<[text |-> text, document_type |-> document_type]>> \o rest
             ELSE rest

\* TrainingPipeline.load_labeled_data for the PDF files of one folder:
\* if text and len(text) > 50
RECURSIVE load_labeled_data(_, _)
load_labeled_data(pdfs, doc_type) ==
    IF pdfs = <<>> THEN <<>>
    ELSE LET text == extract_text_from_pdf(Head(pdfs))
             rest == load_labeled_data(Tail(pdfs), doc_type)
         IN  IF text # <<>> /\ Len(text) > min_text_length
             THEN <<[text |-> text, document_type |-> doc_type]>> \o rest
             ELSE rest

\* a text of n characters c
Fill(c, n) == [i \in 1..n |-> c]

\* the corpora given to the loaders: CSV rows, OCR outcomes of image files,
\* PDF files with a page of text, of blanks, a short page, a failing page
Corpora ==
    LET cells == {<<>>, <<" ">>, <<"a">>, <<" ", "a">>, Confidential}
        ocr == OcrOutcomes \cup {[kind |-> "text", text |-> Confidential]}
        page(t) == [raises |-> FALSE, text |-> t]
        pdfs == {[opens |-> FALSE, pages |-> <<>>],
                 [opens |-> TRUE, pages |-> <<page(Fill("a", min_text_length))>>],
                 [opens |-> TRUE, pages |-> <<page(Fill(" ", min_text_length))>>],
                 [opens |-> TRUE, pages |-> <<page(<<"a">>)>>],
                 [opens |-> TRUE, pages |-> <<page(<<>>), [raises |-> TRUE, text |-> <<>>]>>]}
    IN  [loader : {"csv"},
         files : SeqsUpTo([text : cells, document_type : {"invoice"}], MaxRows)]
        \cup [loader : {"images"}, files : SeqsUpTo(ocr, MaxRows)]
        \cup [loader : {"pdfs"}, files : SeqsUpTo(pdfs, MaxRows)]

InitLoad ==
    /\ vectorizer = Fresh.vectorizer
    /\ classifier = Fresh.classifier
    /\ label_encoder = Fresh.label_encoder
    /\ is_trained = Fresh.is_trained
    /\ training_history = Fresh.training_history
    /\ last_training_samples = Fresh.last_training_samples
    /\ disk = Missing
    /\ now = 0
    /\ ret = Ret("init", "fresh", Returned("None"), 0, FALSE)
    /\ universe = {}
    /\ disk_universe = {}
    /\ HAS_OCR \in BOOLEAN
    /\ trace = <<>>
    /\ threads = NoCalls
    /\ args \in Corpora

\* df = parser.load_training_data_from_csv(csv_path)
LoadTrainingDataFromCsv ==
    /\ ret.op = "init" /\ args.loader = "csv"
    /\ ret' = Ret("load_training_data_from_csv", "done",
                  Returned(load_training_data_from_csv(args.files)), 0, FALSE)
    /\ UNCHANGED <<parser, args>>

\* df = parser.load_training_data_from_images(image_dir, 'invoice')
LoadTrainingDataFromImages ==
    /\ ret.op = "init" /\ args.loader = "images"
    /\ ret' = Ret("load_training_data_from_images", "done",
                  Returned(load_training_data_from_images(HAS_OCR, args.files, "invoice")),
                  0, FALSE)
    /\ UNCHANGED <<parser, args>>

\* df = self.load_labeled_data(), with the folder 'invoices' alone
LoadLabeledData ==
    /\ ret.op = "init" /\ args.loader = "pdfs"
    /\ ret' = Ret("load_labeled_data", "done",
                  Returned(load_labeled_data(args.files, "invoice")), 0, FALSE)
    /\ UNCHANGED <<parser, args>>

NextLoad ==
    \/ LoadTrainingDataFromCsv
    \/ LoadTrainingDataFromImages
    \/ LoadLabeledData

SpecLoad == InitLoad /\ [][NextLoad]_vars

\* -------------------------------------------------------- training pipeline
\* self.parser.create_training_data(500) within the bounds of DataFrames:
\* every document type equally often, texts with terms
create_training_data == [counts |-> [l \in Labels |-> MaxPerClass], terms |-> Terms]

\* TrainingPipeline.run_training(save_path) on the pipeline's parser in state
\* s, with `found` the DataFrame load_labeled_data returns: the state and the
\* file it leaves, whether it got to its own os.makedirs, and how it ended
run_training(s, file, found, fault, keep, decision, ts) ==
    LET df == IF Len_df(found) = 0 THEN create_training_data ELSE found
        trained == train_model(s, df, fault, keep, decision, ts)
        saved == save_model(trained.state, file)
    IN  [state |-> trained.state, file |-> saved.file, makedirs |-> TRUE,
         train |-> trained.outcome, samples |-> Len_df(df), warned |-> trained.warned,
         universe |-> LabelsOf(df),
         result |-> IF saved.result.raised THEN saved.result ELSE Returned("self.parser")]

\* every way run_training can end for the labelled data `found`
RunResults(s, file, found, ts) ==
    {run_training(s, file, found, fault, keep, decision, ts) :
        fault \in Faults, keep \in BOOLEAN,
        decision \in Decisions(IF Len_df(found) = 0 THEN create_training_data ELSE found)}

\* parser = pipeline.run_training("models/document_classifier.joblib")
RunTraining ==
    /\ now < MaxClock
    /\ \E found \in DataFrames : \E r \in RunResults(State, disk, found, now + 1) :
        /\ Becomes(r.state)
        /\ now' = now + 1
        /\ disk' = r.file
        /\ ret' = Ret("run_training", r.train, r.result, r.samples, r.warned)
        /\ universe' = IF Succeeded(r.train) THEN r.universe ELSE universe
        /\ disk_universe' = IF r.result.raised THEN disk_universe ELSE universe'
        /\ UNCHANGED <<HAS_OCR, trace, args, threads>>

\* the pipeline's own parser, trained and saved through run_training or
\* saved by a direct call
NextPipeline ==
    \/ RunTraining
    \/ SaveModel

SpecPipeline == Init /\ [][NextPipeline]_vars

\* ------------------------------------------------------------ evaluate_model
\* the classifier states a parser can be in after at most one train_model call
EvalStates ==
    {Fresh} \cup UNION {{r.state : r \in TrainResults(Fresh, df, 1)} : df \in DataFrames}

InitEvaluate ==
    /\ \E s \in EvalStates :
        /\ vectorizer = s.vectorizer
        /\ classifier = s.classifier
        /\ label_encoder = s.label_encoder
        /\ is_trained = s.is_trained
        /\ training_history = s.training_history
        /\ last_training_samples = s.last_training_samples
    /\ disk = Missing
    /\ now = 1
    /\ ret = Ret("init", "fresh", Returned("None"), 0, FALSE)
    /\ universe = {}
    /\ disk_universe = {}
    /\ HAS_OCR = TRUE
    /\ trace = <<>>
    /\ args = <<>>
    /\ threads = NoCalls

\* every way self.parse_document(file_path, use_ml=True) can end for a file,
\* as far as evaluate_model looks at it
ParsedOutcomes(s, has_ocr, ts) ==
    UNION {{Parsed(r.result) : r \in ParseResults(s, has_ocr, file, "general", TRUE, ts)} :
              file \in Files}

\* the entries of test_documents: labelled documents with a file, and
\* entries without a label, without a path, without both
TestDocuments(s, has_ocr, ts) ==
    [true_document_type : {"invoice"}, file_path : {"doc.pdf"},
     parsed : ParsedOutcomes(s, has_ocr, ts)]
        \cup {[true_document_type |-> l, file_path |-> f, parsed |-> Parsed(Raised("not parsed"))] :
                 l \in {NoValue}, f \in {"doc.pdf", NoValue}}
        \cup {[true_document_type |-> "invoice", file_path |-> NoValue,
               parsed |-> Parsed(Raised("not parsed"))]}

\* results = parser.evaluate_model(test_docs)
EvaluateModel ==
    /\ ret.op = "init"
    /\ \E test_documents \in SeqsUpTo(TestDocuments(State, HAS_OCR, now), MaxDocs) :
        /\ args' = test_documents
        /\ ret' = Ret("evaluate", "done", evaluate_model(State, test_documents), 0, FALSE)
    /\ UNCHANGED parser

SpecEvaluate == InitEvaluate /\ [][EvaluateModel]_vars

\* ------------------------------------------- concurrent parse_document calls
\* The callers of one shared parser (the request handlers of api_2.0.py)
\* each run parse_document; a call is three steps, cut where it reads the
\* shared ClassifierState.  All else a call works on is local to it.
SharedFiles ==
    {[ext |-> ".pdf", read |-> [opens |-> TRUE, pages |-> <<[raises |-> FALSE, text |-> <<"a">>]>>]],
     [ext |-> ".png", read |-> [kind |-> "Exception", text |-> <<>>]]}
SharedFaults == {"none", "extract_features"}

RawText(has_ocr, file) ==
    IF IsImagePath(file.ext) THEN extract_text_from_image(has_ocr, file.read)
    ELSE extract_text_from_pdf(file.read)

\* result = parser.parse_document(tmp_path, doc_type=doc_type, use_ml=use_ml):
\* text extraction, the empty-text check and clean_text
ParseExtract(t) ==
    /\ ret.op = "init"
    /\ threads[t].pc = "idle"
    /\ \E file \in SharedFiles, doc_type \in DocTypes, use_ml \in BOOLEAN, fault \in SharedFaults :
        LET call == [Idle EXCEPT !.file = file, !.doc_type = doc_type, !.use_ml = use_ml,
                                 !.fault = fault, !.resolved = doc_type]
        IN  threads' = [threads EXCEPT ![t] =
                IF NoText(RawText(HAS_OCR, file))
                THEN [call EXCEPT !.pc = "done",
                                  !.result = Returned([success |-> FALSE, error |-> NoTextError])]
                ELSE [call EXCEPT !.pc = "extracted"]]
    /\ UNCHANGED <<cls, disk, now, ret, universe, disk_universe, HAS_OCR, trace, args>>

\* if use_ml and self.is_trained: doc_type = self.predict_document_type(...)
ParsePredict(t) ==
    /\ threads[t].pc = "extracted"
    /\ \E prediction \in UNION {predict_document_type(State, text) : text \in Texts} :
        LET call == threads[t]
        IN  threads' = [threads EXCEPT ![t] =
                [call EXCEPT !.pc = "predicted",
                             !.resolved = ResolvedType(State, call.doc_type, call.use_ml,
                                                       prediction)]]
    /\ Becomes(ReadOnly(State))
    /\ UNCHANGED <<disk, now, ret, universe, disk_universe, HAS_OCR, trace, args>>

\* the extraction steps and the return, or the except clause
ParseFinish(t) ==
    /\ threads[t].pc = "predicted"
    /\ LET call == threads[t]
       IN  threads' = [threads EXCEPT ![t] =
               [call EXCEPT !.pc = "done",
                            !.result = IF call.fault # "none" THEN OnException(call.fault, now)
                                       ELSE Returned(Assembled(call.resolved,
                                                clean_text(RawText(HAS_OCR, call.file)), now))]]
    /\ UNCHANGED <<cls, disk, now, ret, universe, disk_universe, HAS_OCR, trace, args>>

\* no parse_document call is in progress
Quiet == threads = NoCalls

NextShared ==
    \/ \E t \in Callers : ParseExtract(t)
    \/ \E t \in Callers : ParsePredict(t)
    \/ \E t \in Callers : ParseFinish(t)
    \/ Quiet /\ PredictDocumentType
    \/ Quiet /\ EvaluateModel

SpecShared == InitEvaluate /\ [][NextShared]_vars

\* --------------------------------------------------------- background tasks
\* faulty variant: the task's parser constructed from a saved model
TaskParser_Loaded == CHOOSE s \in EvalStates : s.is_trained /\ s.classifier.fitted
\* parser = DocumentParser(): the parser a task constructs for itself
TaskParser == Fresh

\* what is not decided by the file in one parse of a task: the step of
\* parse_document that raises, how a prediction ends, whether the preview
\* generator raises
TaskChoices(faults) ==
    [fault : faults,
     prediction : UNION {predict_document_type(TaskParser, text) : text \in Texts},
     preview_raises : BOOLEAN]

\* result = parser.parse_document(file_path, use_ml=use_ml): doc_type is left
\* to its default "general"
TaskParse(has_ocr, file, use_ml, c, ts) ==
    parse_document(TaskParser, has_ocr, file, "general", use_ml, c.fault, c.prediction, ts).result.value

\* process_document_async(file_path, user_id, document_id, use_ml,
\* generate_preview): the dict the task returns, from the result of its
\* parse_document call
process_document_async(result, generate_preview, preview_raises) ==
    IF generate_preview /\ result.success /\ preview_raises
    THEN [success |-> FALSE, error |-> "preview"]
    ELSE [success |-> TRUE, processing_result |-> result]

\* the body of the loop of batch_process_documents_async for one file: the
\* entry appended to results
BatchEntry(has_ocr, file, use_ml, c, ts) ==
    IF c.preview_raises
    THEN [success |-> FALSE, error |-> "preview"]
    ELSE [success |-> TRUE, result |-> TaskParse(has_ocr, file, use_ml, c, ts)]

\* batch_process_documents_async(file_paths, user_id, use_ml), from the
\* entries its loop appended for file_paths
batch_process_documents_async(file_paths, results) ==
    LET successful == Len(SelectSeq(results, LAMBDA entry : entry.success))
    IN  [success |-> TRUE,
         total_processed |-> Len(file_paths),
         successful |-> successful,
         failed |-> Len(results) - successful,
         results |-> results]

\* a worker runs process_document_async
ProcessDocumentAsync ==
    /\ ret.op = "init"
    /\ \E file \in Files, use_ml \in BOOLEAN :
       \E result \in {TaskParse(HAS_OCR, file, use_ml, c, now) : c \in TaskChoices(ParseFaults)} :
       \E generate_preview \in BOOLEAN, preview_raises \in BOOLEAN :
        /\ ret' = Ret("process_document_async", "done",
                      Returned(process_document_async(result, generate_preview, preview_raises)),
                      0, FALSE)
        /\ args' = [use_ml |-> use_ml]
        /\ UNCHANGED parser

\* a worker runs batch_process_documents_async: entries[f] are the entries
\* the loop body can append for the file f
BatchProcessDocumentsAsync ==
    /\ ret.op = "init"
    /\ \E use_ml \in BOOLEAN :
       \E entries \in {[f \in SharedFiles |->
                          {BatchEntry(HAS_OCR, f, use_ml, c, now) : c \in TaskChoices(SharedFaults)}]} :
       \E file_paths \in SeqsUpTo(SharedFiles, MaxDocs) :
       \E results \in [1..Len(file_paths) -> UNION {entries[f] : f \in SharedFiles}] :
        /\ \A i \in 1..Len(file_paths) : results[i] \in entries[file_paths[i]]
        /\ ret' = Ret("batch_process_documents_async", "done",
                      Returned(batch_process_documents_async(file_paths, results)), 0, FALSE)
        /\ args' = [use_ml |-> use_ml]
        /\ UNCHANGED parser

\* the tasks, and parse_document called on a parser that was never trained
NextTasks ==
    \/ ProcessDocumentAsync
    \/ BatchProcessDocumentsAsync
    \/ ret.op = "init" /\ ParseDocument

SpecTasks == Init /\ [][NextTasks]_vars

\* ------------------------------------------------- the result of a parse
\* a parser after at most one train_model call, about to parse
InitResult ==
    /\ \E s \in EvalStates :
        /\ vectorizer = s.vectorizer
        /\ classifier = s.classifier
        /\ label_encoder = s.label_encoder
        /\ is_trained = s.is_trained
        /\ training_history = s.training_history
        /\ last_training_samples = s.last_training_samples
    /\ disk = Missing
    /\ now = 1
    /\ ret = Ret("init", "fresh", Returned("None"), 0, FALSE)
    /\ universe = {}
    /\ disk_universe = {}
    /\ HAS_OCR \in BOOLEAN
    /\ trace = <<>>
    /\ args = <<>>
    /\ threads = NoCalls

\* the cleaned texts of documents about as long as the preview: letters
\* alone, as clean_text can return them
LongCleanedTexts ==
    {Fill("a", n) : n \in (preview_chars - 1)..(preview_chars + MaxPageLen)}

\* the return statement of parse_document for a document of which every
\* step went through: cleaned_text is what clean_text returned, doc_type the
\* resolved type
AssembleResult ==
    /\ ret.op = "init"
    /\ \E cleaned_text \in LongCleanedTexts, doc_type \in DocTypes :
        /\ ret' = Ret("parse", "ok", Returned(Assembled(doc_type, cleaned_text, now)), 0, FALSE)
        /\ args' = cleaned_text
        /\ UNCHANGED parser

NextResult ==
    \/ ParseDocument
    \/ ResultTaken
    \/ AssembleResult

SpecResult == InitResult /\ [][NextResult]_vars

\* ================================================================ claims
IsPrefix(h1, h2) == Len(h1) <= Len(h2) /\ SubSeq(h2, 1, Len(h1)) = h1

\* C1: every label predict_document_type returns is one of the document_type
\* values of the most recent successful train_model call behind the fit.
C1_LabelSpaceClosure ==
    (ret.op = "predict" /\ ~ret.raised) => ret.value \in universe

\* C2: a train_model call on a non-empty DataFrame that produces no usable
\* fit does not raise and leaves the whole ClassifierState as it was.
C2_FailedTrainLeavesState ==
    [][(ret'.op = "train" /\ ret'.outcome \in {"prep_failed", "fit_failed"})
        => (~ret'.raised /\ cls' = cls)]_vars

\* C3: load_model of a missing or undeserializable artifact does not raise
\* and leaves the classifier in the fresh Untrained state of construction.
C3_FailedLoadIsFresh ==
    [][(ret'.op = "load" /\ ret'.outcome \in {"missing", "corrupt"})
        => (~ret'.raised /\ State' = Fresh)]_vars

\* C4: predict_document_type returns a label only when is_trained holds; on
\* an untrained classifier, a freshly constructed one included, it raises the
\* untrained-model error.
C4_UntrainedPredictRaises ==
    ret.op = "predict" =>
        /\ ~ret.raised => is_trained
        /\ ~is_trained => (ret.raised /\ ret.value = UntrainedError)
C4_Witness == ret.op = "predict" /\ State = Fresh /\ ret.raised

\* C5: every successful train_model call appends exactly one record
\* {timestamp, samples = len(df)} to training_history and sets
\* last_training_samples to len(df) of that call alone.
C5_HistoryGrowth ==
    [][(ret'.op = "train" /\ Succeeded(ret'.outcome))
        => /\ training_history' =
                Append(training_history, [timestamp |-> now', samples |-> ret'.samples])
           /\ last_training_samples' = ret'.samples]_vars
C5_Witness ==
    /\ ret.op = "train" /\ Succeeded(ret.outcome)
    /\ Len(training_history) = 2
    /\ training_history[1].samples # training_history[2].samples
    /\ last_training_samples = training_history[2].samples

C7_RoundTrip ==
    is_trained =>
        LET file == save_model(State, disk).file
            same == load_model(State, file, TRUE).state
            other == load_model(Fresh, file, TRUE).state
        IN  \A l \in {same, other} :
                /\ l.is_trained = is_trained
                /\ l.training_history = training_history
                /\ l.last_training_samples = last_training_samples
                /\ l.label_encoder.classes = label_encoder.classes
                /\ \A text \in Texts :
                       predict_document_type(l, text) = predict_document_type(State, text)
C7_Witness ==
    /\ ret.op = "load" /\ ret.outcome = "loaded"
    /\ is_trained
    /\ disk = Pickle(model_data(State))
    /\ training_history # <<>>

\* C8: train_model on an empty DataFrame does not raise and changes nothing
\* of the ClassifierState; with 1 to 9 samples it warns and goes on to train.
C8_EmptyTrainIsNoOp ==
    [][ret'.op = "train"
        => /\ ret'.samples = 0 => (~ret'.raised /\ cls' = cls /\ ret'.outcome = "empty")
           /\ ret'.samples \in 1..9 => (ret'.warned /\ ret'.outcome # "empty")]_vars
C8_Witness ==
    /\ ret.op = "train" /\ ret.samples = 0 /\ ret.outcome = "empty"
    /\ is_trained

\* C9: when text extraction yields empty text (OCR unavailable or failing,
\* a PDF that does not open or has no text) parse_document returns
\* {success: False, error} without running any later step, and does not raise.
C9_EmptyInputSafety ==
    ret.op = "parse" =>
        LET x == trace[1]
        IN  /\ (x.step = "extract_text_from_image" /\ (~HAS_OCR \/ x.read.kind # "text"))
                => x.out = <<>>
            /\ (x.step = "extract_text_from_pdf" /\ ~x.read.opens) => x.out = <<>>
            /\ x.out = <<>>
                => /\ ~ret.raised
                   /\ ret.value = [success |-> FALSE, error |-> NoTextError]
                   /\ Len(trace) = 1
C9_Witness ==
    /\ ret.op = "parse"
    /\ trace[1].step = "extract_text_from_image" /\ ~HAS_OCR /\ trace[1].read.kind = "text"
    /\ trace[1].read.text # <<>>
    /\ ret.value.success = FALSE

C11_AdvisoryPrediction ==
    ret.op = "parse" =>
        LET x == trace[1]
            attempted == \E i \in 2..Len(trace) : trace[i] = "predict_document_type"
        IN  /\ attempted => (x.use_ml /\ is_trained)
            /\ ~attempted => x.predict = NotAttempted
            /\ attempted => x.predict \in UNION {predict_document_type(State, t) : t \in Texts}
            /\ ret.outcome = "exception" => trace[Len(trace)] # "predict_document_type"
            /\ ret.outcome = "ok" =>
                   /\ ret.value.success
                   /\ ret.value.document_type =
                          IF attempted /\ ~x.predict.raised THEN x.predict.value
                          ELSE x.doc_type
C11_Witness ==
    /\ ret.op = "parse" /\ ret.outcome = "ok"
    /\ is_trained /\ trace[1].use_ml
    /\ trace[1].predict.raised
    /\ trace[1].doc_type = "memo"
    /\ ret.value.document_type = "memo"

\* C12: clean_text is idempotent, clean_text(clean_text(t)) = clean_text(t)
\* for every text t, and clean_text of the empty text is empty.
C12_CleanIdempotent ==
    /\ ret.op = "clean_again" => ret.value = args
    /\ (ret.op = "clean_text" /\ args = <<>>) => ret.value = <<>>

\* C13: extract_contact_info never drops a phone match: for every string
\* the contact phone rule matched, the phone list of the result holds its
\* international form when the number parses and is valid, and the string
\* itself when it does not parse or is not valid.
C13_NoPhoneDropped ==
    (ret.op = "extract_contact_info" /\ "phone" \in DOMAIN args.contact_patterns) =>
        /\ "phone" \in DOMAIN ret.value
        /\ \A m \in Range(args.contact_patterns["phone"]) :
               IF args.verdict[m.of] = "valid"
               THEN InternationalForm(m.of) \in Range(ret.value["phone"])
               ELSE RawForm(m.of) \in Range(ret.value["phone"])

\* C14: in extract_invoice_details, when no first_name and no last_name
\* pattern matched and a person entity is recognized, first_name and
\* last_name are the first and the last token of the first person entity;
\* when no city pattern matched and a location entity is recognized, city
\* is the first location entity alone.
C14_InvoiceAugmentation ==
    ret.op = "extract_invoice_details" =>
        LET matched == DOMAIN args.pattern_results
            persons == TextsOf(args.ents, {"PERSON"})
            locations == TextsOf(args.ents, {"GPE", "LOC"})
            tokens == Split(persons[1])
        IN  /\ ("first_name" \notin matched /\ "last_name" \notin matched /\ persons # <<>>)
                   => /\ {"first_name", "last_name"} \subseteq DOMAIN ret.value
                      /\ ret.value["first_name"] = <<tokens[1]>>
                      /\ ret.value["last_name"] = <<tokens[Len(tokens)]>>
            /\ ("city" \notin matched /\ locations # <<>>)
                   => /\ "city" \in DOMAIN ret.value
                      /\ ret.value["city"] = <<locations[1]>>

\* C15: extract_with_patterns uses the rules of doc_type when it is one of
\* invoice, receipt, contract, contact, general and the general rules
\* otherwise; a field is a key of the result iff its rule matches somewhere
\* in the text, whatever the case of the letters there; and the list of a
\* field holds every distinct match exactly once.
C15_PatternExtraction ==
    ret.op = "extract_with_patterns" =>
        LET known == {"invoice", "receipt", "contract", "contact", "general"}
            rules == patterns[IF args.doc_type \in known THEN args.doc_type ELSE "general"]
            MatchesOf(field) ==
                {pl.groups : pl \in {x \in Range(args.text) : x.pattern = rules[field]}}
        IN  /\ DOMAIN ret.value = {field \in DOMAIN rules : MatchesOf(field) # {}}
            /\ \A field \in DOMAIN ret.value :
                   /\ Range(ret.value[field]) = MatchesOf(field)
                   /\ Len(ret.value[field]) = Cardinality(MatchesOf(field))
C15_Witness ==
    /\ ret.op = "extract_with_patterns"
    /\ args.doc_type = "receipt"
    /\ Len(args.text) = 2
    /\ args.text[1].groups = args.text[2].groups
    /\ args.text[1].other_case /\ args.text[2].other_case
    /\ DOMAIN ret.value = {"date"}
    /\ Len(ret.value["date"]) = 1

\* C16: every name of candidate_names has at least 2 tokens and more than 4
\* characters, no name is there twice, the names stand in non-increasing
\* order of score = max(0, 1 - offset/len(text)) of their first occurrence,
\* a score between 0 and 1, and primary_name is candidate_names[0], or None
\* exactly when the list is empty.
C16_HolderNames ==
    ret.op = "extract_document_holder_name" =>
        LET c == ret.value.candidate_names
            \* len(text) - offset of the first occurrence: the score times len(text)
            Scaled(name) ==
                LET first == CHOOSE i \in 0..Len(args.text) :
                                /\ LitAt(args.text, i + 1, name)
                                /\ \A j \in 0..(i - 1) : ~LitAt(args.text, j + 1, name)
                IN  IF Len(args.text) - first > 0 THEN Len(args.text) - first ELSE 0
        IN  /\ \A i \in 1..Len(c) :
                   /\ Len(Split(c[i])) >= 2 /\ Len(c[i]) > 4
                   /\ Scaled(c[i]) >= 0 /\ Scaled(c[i]) <= Len(args.text)
                   /\ \A j \in (i + 1)..Len(c) : c[i] # c[j] /\ Scaled(c[i]) >= Scaled(c[j])
            /\ c # <<>> => ret.value.primary_name = Some(c[1])
            /\ c = <<>> <=> ret.value.primary_name = None
C16_Witness ==
    /\ ret.op = "extract_document_holder_name"
    /\ Len(ret.value.candidate_names) = 2
    /\ Len(args.ner_names) = 2
    /\ args.names = <<args.ner_names[1]>>
    /\ args.ner_names[1] = ret.value.candidate_names[2]
    /\ Score(args.text, args.ner_names[1]) < Score(args.text, args.ner_names[2])
    /\ NamesIn(args.text) = HolderNames

\* C17: extract_entities returns, for each of PERSON, ORG, GPE, DATE, MONEY
\* and PRODUCT, the texts of the spans of that kind, each once, in the order
\* in which they are first seen; spans of another kind are ignored.
C17_EntitiesFirstSeen ==
    ret.op = "extract_entities" =>
        LET kinds == {"PERSON", "ORG", "GPE", "DATE", "MONEY", "PRODUCT"}
            \* where a text is first seen as a span of a kind
            FirstSeen(kind, text) ==
                CHOOSE i \in 1..Len(args) :
                    /\ args[i] = [text |-> text, label |-> kind]
                    /\ \A j \in 1..(i - 1) : args[j] # args[i]
        IN  /\ DOMAIN ret.value = kinds
            /\ \A kind \in kinds :
                   LET list == ret.value[kind]
                   IN  /\ Range(list) = {ent.text : ent \in {e \in Range(args) : e.label = kind}}
                       /\ \A i \in 1..Len(list) : \A j \in (i + 1)..Len(list) :
                              /\ list[i] # list[j]
                              /\ FirstSeen(kind, list[i]) < FirstSeen(kind, list[j])
C17_Witness ==
    /\ ret.op = "extract_entities"
    /\ Len(args) = 3
    /\ args[1] = [text |-> TwoWords, label |-> "PERSON"]
    /\ args[2] = [text |-> OneWord, label |-> "LOC"]
    /\ args[3] = args[1]
    /\ ret.value["PERSON"] = <<TwoWords>>
    /\ ret.value["GPE"] = <<>>

\* the documents of a list that have a label and a file path
Labelled(docs) ==
    SelectSeq(docs, LAMBDA d : d.true_document_type # NoValue /\ d.file_path # NoValue)
\* how many documents of a list are predicted as labelled
Hits(docs) ==
    Len(SelectSeq(docs, LAMBDA d : d.parsed.document_type = d.true_document_type))

\* C18: evaluate_model reports accuracy = correct / total * 100 rounded to
\* two decimals (here in hundredths), and 0 when total is 0; for 3 labelled
\* documents of which 2 are predicted correctly it reports 66.67, 2 and 3.
C18_Accuracy ==
    (ret.op = "evaluate" /\ ~ret.raised /\ "accuracy" \in DOMAIN ret.value) =>
        LET a == ret.value.accuracy
            c == ret.value.correct_predictions
            t == ret.value.total_documents
            off == a * t - c * 10000
        IN  /\ t = 0 => a = 0
            /\ t > 0 => (2 * off <= t /\ -2 * off <= t)
            /\ (Len(args) = 3 /\ Labelled(args) = args /\ Hits(args) = 2)
                   => (a = 6667 /\ c = 2 /\ t = 3)
C18_Witness ==
    /\ ret.op = "evaluate" /\ ~ret.raised
    /\ Len(args) = 3 /\ Labelled(args) = args /\ Hits(args) = 2
    /\ ret.value.accuracy = 6667

RECURSIVE SumCounts(_)
\* the sum of the counters of a map
SumCounts(f) ==
    IF DOMAIN f = {} THEN 0
    ELSE LET k == CHOOSE x \in DOMAIN f : TRUE
         IN  f[k] + SumCounts([x \in DOMAIN f \ {k} |-> f[x]])

\* C19: in evaluate_model every labelled document with a file path adds one
\* to exactly one (true, predicted) pair counter and to the total, and to
\* correct exactly when the two labels are equal; a document without a
\* label or a path adds to neither, so the pair counters sum to the total
\* and correct <= total.
C19_TallyConsistent ==
    (ret.op = "evaluate" /\ ~ret.raised /\ "accuracy" \in DOMAIN ret.value) =>
        LET compared == Labelled(args)
            pairs == ret.value.confusion_data
        IN  /\ ret.value.total_documents = Len(compared)
            /\ ret.value.correct_predictions = Hits(compared)
            /\ ret.value.correct_predictions <= ret.value.total_documents
            /\ SumCounts(pairs) = ret.value.total_documents
            /\ \A key \in DOMAIN pairs :
                   pairs[key] = Len(SelectSeq(compared, LAMBDA d :
                                    <<d.true_document_type, d.parsed.document_type>> = key))

\* the results parse_document gives for a caller's arguments when it runs
\* alone on the parser
Alone(call) ==
    {parse_document(State, HAS_OCR, call.file, call.doc_type, call.use_ml, call.fault,
                    prediction, now).result :
        prediction \in UNION {predict_document_type(State, text) : text \in Texts}}

\* C20: parse_document, predict_document_type and evaluate_model leave
\* is_trained, the vectorizer, the classifier, the label encoder,
\* training_history and last_training_samples as they are, and every
\* parse_document call interleaved with others on the shared parser returns
\* a result the same call returns alone.
C20_ReadersShareClassifier ==
    [][/\ cls' = cls
       /\ \A t \in Callers :
              threads'[t].pc = "done" => threads'[t].result \in Alone(threads'[t])]_vars
C20_Witness ==
    /\ is_trained
    /\ threads["a"].pc = "predicted" /\ ~threads["a"].use_ml
    /\ threads["b"].pc = "done" /\ threads["b"].use_ml
    /\ threads["b"].doc_type = "memo"
    /\ threads["b"].result.value.success
    /\ threads["b"].result.value.document_type \in Labels
    /\ threads["a"].resolved # threads["b"].resolved

\* C21: when the primary classifier fails to fit or its evaluation raises and
\* the fallback LogisticRegression fits, train_model marks the classifier
\* trained, appends exactly one record and sets last_training_samples to
\* len(df) of this call; in every outcome one call appends at most one record
\* and appends one exactly when it ends by marking the classifier trained.
C21_FallbackCountsOnce ==
    [][ret'.op = "train"
        => /\ ret'.outcome = "fallback"
                => /\ is_trained'
                   /\ training_history' =
                        Append(training_history, [timestamp |-> now', samples |-> ret'.samples])
                   /\ last_training_samples' = ret'.samples
           /\ IsPrefix(training_history, training_history')
           /\ Len(training_history') <= Len(training_history) + 1
           /\ Len(training_history') = Len(training_history) + 1
                <=> (Succeeded(ret'.outcome) /\ is_trained')]_vars
C21_Witness ==
    /\ ret.op = "train" /\ ret.outcome = "fallback"
    /\ is_trained
    /\ Len(training_history) = 2
    /\ classifier.kind = "LogisticRegression"

\* C22: extract_invoice_details leaves every field a pattern rule matched as
\* the pattern gave it; first_name, last_name and city take a value derived
\* from the entities only when the field has no pattern match, and when
\* first_name and last_name are both derived from entities they are the
\* first and the last token of one and the same person entity.
C22_PatternPrecedence ==
    ret.op = "extract_invoice_details" =>
        LET matched == DOMAIN args.pattern_results
            derived == DOMAIN ret.value \ matched
            persons == TextsOf(args.ents, {"PERSON"})
            locations == TextsOf(args.ents, {"GPE", "LOC"})
            FromPerson(i, keys) ==
                LET tokens == Split(persons[i])
                IN  /\ Len(tokens) >= 2
                    /\ "first_name" \in keys => ret.value["first_name"] = <<tokens[1]>>
                    /\ "last_name" \in keys => ret.value["last_name"] = <<tokens[Len(tokens)]>>
        IN  /\ \A k \in matched : k \in DOMAIN ret.value /\ ret.value[k] = args.pattern_results[k]
            /\ derived \subseteq {"first_name", "last_name", "city"}
            /\ derived \cap {"first_name", "last_name"} # {}
                   => \E i \in 1..Len(persons) :
                          FromPerson(i, derived \cap {"first_name", "last_name"})
            /\ "city" \in derived => (locations # <<>> /\ ret.value["city"] = locations)
C22_Witness ==
    /\ ret.op = "extract_invoice_details"
    /\ DOMAIN args.pattern_results = {"city"}
    /\ TextsOf(args.ents, {"PERSON"}) = <<OneWord, TwoWords, ThreeWords>>
    /\ ret.value["first_name"] = <<<<"B">>>>
    /\ ret.value["last_name"] = <<<<"S">>>>
    /\ ret.value["city"] = args.pattern_results["city"]

\* C23: a parser constructed without a model path is untrained; is_trained
\* becomes true only by a successful train_model or by loading a saved
\* artifact, and both make it true; once it is true every later train_model
\* call, whether it succeeds, gets no data or fails, leaves it true; on one
\* instance it goes from true to false only by a load_model of an artifact
\* that does not deserialize.
C23_OneWayUnderTrain ==
    [][/\ (ret'.op = "init" /\ ret'.outcome = "fresh") => ~is_trained'
       /\ (ret'.op = "train" /\ Succeeded(ret'.outcome)) => is_trained'
       /\ (ret'.op \in {"load", "init"} /\ ret'.outcome = "loaded") => is_trained'
       /\ (ret'.op = "train" /\ is_trained) => is_trained'
       /\ (~is_trained /\ is_trained')
            => \/ ret'.op = "train" /\ Succeeded(ret'.outcome)
               \/ ret'.op \in {"load", "init"} /\ ret'.outcome = "loaded"
       /\ (is_trained /\ ~is_trained' /\ ret'.op # "init")
            => (ret'.op = "load" /\ ret'.outcome = "corrupt")]_vars
C23_Witness ==
    /\ ret.op = "train" /\ ret.outcome \in {"prep_failed", "fit_failed"}
    /\ is_trained
    /\ Len(training_history) = 1

\* C24: extract_text_from_pdf does not raise; it returns the texts of the
\* pages that gave text, in page order, each followed by a newline, pages
\* without text skipped; when the file does not open or a page raises, it
\* returns the text of the pages before the failure, nothing when the file
\* does not open.
C24_PdfTextRecovered ==
    ret.op = "extract_text_from_pdf" =>
        LET failed == {i \in 1..Len(args.pages) : args.pages[i].raises}
            last == IF failed = {} THEN Len(args.pages)
                    ELSE (CHOOSE i \in failed : \A j \in failed : i <= j) - 1
            processed == IF args.opens THEN SubSeq(args.pages, 1, last) ELSE <<>>
            yielding == SelectSeq(processed, LAMBDA page : page.text # <<>>)
        IN  /\ ~ret.raised
            /\ ret.value = Concat([i \in 1..Len(yielding) |-> yielding[i].text \o <<Newline>>])
C24_Witness ==
    /\ ret.op = "extract_text_from_pdf"
    /\ Len(args.pages) = 2
    /\ args.pages[1].text = <<"a", " ">>
    /\ args.pages[2].raises
    /\ ret.value = <<"a", " ", Newline>>

\* C25: parse_document dispatches on the resolved type: a successful parse
\* uses extract_invoice_details exactly when the type after the optional
\* prediction is invoice, and extract_with_patterns for the resolved type
\* otherwise; the text is read by OCR when the lower-cased path ends in
\* .jpg, .jpeg, .png, .bmp or .tiff and by the PDF extractor otherwise.
C25_DispatchOnResolvedType ==
    ret.op = "parse" =>
        LET x == trace[1]
            predicted == x.use_ml /\ is_trained /\ x.predict # NotAttempted /\ ~x.predict.raised
            resolved == IF predicted THEN x.predict.value ELSE x.doc_type
        IN  /\ x.step = "extract_text_from_image"
                <=> \E e \in {".jpg", ".jpeg", ".png", ".bmp", ".tiff"} : Lower(x.ext) = e
            /\ x.step # "extract_text_from_image" <=> x.step = "extract_text_from_pdf"
            /\ x.step = "extract_text_from_image"
                => x.out = extract_text_from_image(HAS_OCR, x.read)
            /\ x.step = "extract_text_from_pdf" => x.out = extract_text_from_pdf(x.read)
            /\ ret.outcome = "ok" =>
                   /\ ret.value.pattern_extraction.call = "extract_invoice_details"
                          <=> resolved = "invoice"
                   /\ ret.value.pattern_extraction.call # "extract_invoice_details"
                          => ret.value.pattern_extraction =
                                [call |-> "extract_with_patterns", doc_type |-> resolved]
\* a memo requested, invoice predicted, read from a path in capitals
C25_Witness ==
    /\ ret.op = "parse" /\ ret.outcome = "ok"
    /\ trace[1].doc_type = "memo" /\ trace[1].use_ml /\ is_trained
    /\ trace[1].ext = ".PNG" /\ trace[1].step = "extract_text_from_image"
    /\ ret.value.document_type = "invoice"
    /\ ret.value.pattern_extraction.call = "extract_invoice_details"

\* C26: every sample a corpus loader returns (CSV rows in the text,
\* document_type format, image directories read by OCR, PDF directories) has
\* a text that is not empty after clean_text; a row or a file whose text is
\* empty or only whitespace gives no sample.
C26_SamplesNonEmpty ==
    ret.op \in {"load_training_data_from_csv", "load_training_data_from_images",
                "load_labeled_data"} =>
        \A i \in 1..Len(ret.value) :
            /\ Strip(ret.value[i].text) # <<>>
            /\ clean_text(ret.value[i].text) # <<>>
\* the part of C26 that holds: no loader returns a sample with an empty text
C26_NoEmptyText ==
    ret.op \in {"load_training_data_from_csv", "load_training_data_from_images",
                "load_labeled_data"} =>
        \A i \in 1..Len(ret.value) : ret.value[i].text # <<>>
\* the loaders by themselves: which of them keep whitespace-only texts out
C26_ImagesDropWhitespace ==
    ret.op = "load_training_data_from_images" =>
        \A i \in 1..Len(ret.value) : Strip(ret.value[i].text) # <<>>
C26_CsvDropsWhitespace ==
    ret.op = "load_training_data_from_csv" =>
        \A i \in 1..Len(ret.value) : Strip(ret.value[i].text) # <<>>
C26_PdfsDropWhitespace ==
    ret.op = "load_labeled_data" =>
        \A i \in 1..Len(ret.value) : Strip(ret.value[i].text) # <<>>

\* C27: in every state reached by construction, train_model, save_model and
\* load_model of artifacts save_model wrote, a trained classifier has a
\* non-empty training_history and its last_training_samples is the samples
\* value of the last record of the history.
C27_TrainedHasHistory ==
    is_trained =>
        /\ training_history # <<>>
        /\ last_training_samples = training_history[Len(training_history)].samples
\* trained, saved, and trained again with a DataFrame of another size
C27_Witness ==
    /\ is_trained
    /\ ret.op = "train" /\ Succeeded(ret.outcome)
    /\ Len(training_history) = 2
    /\ training_history[1].samples # training_history[2].samples
    /\ disk # Missing

\* C28: save_model on an untrained classifier raises, writes no artifact and
\* creates no directory, so every artifact save_model wrote records
\* is_trained = True; run_training, which calls train_model and then
\* save_model whatever the training did, raises instead of returning when
\* the training fails on a parser that was never trained.
C28_SaveNeedsTrained ==
    /\ ~is_trained =>
            LET r == save_model(State, disk)
            IN  r.result.raised /\ r.file = disk /\ ~r.makedirs
    /\ (ret.op = "save" /\ ~is_trained) => ret.raised
    /\ disk.kind = "pickle" => disk.data.is_trained
    /\ (ret.op = "run_training" /\ ~is_trained)
            => (ret.raised /\ ~Succeeded(ret.outcome))
    /\ (ret.op = "run_training" /\ ~Succeeded(ret.outcome) /\ training_history = <<>>)
            => (ret.raised /\ ~is_trained)
C28_Witness ==
    /\ ret.op = "run_training" /\ ret.outcome = "fit_failed"
    /\ ret.raised
    /\ ~is_trained /\ vectorizer.fitted
    /\ disk = Missing

\* C29: on a parser constructed without a model path and never trained,
\* parse_document returns the requested type as document_type whatever
\* use_ml is; process_document_async and batch_process_documents_async
\* construct such a parser and pass no type, so every successful parse they
\* report has document_type 'general' whatever use_ml is.
C29_UntrainedKeepsRequestedType ==
    /\ (ret.op = "parse" /\ ret.outcome = "ok" /\ ~is_trained /\ training_history = <<>>)
            => ret.value.document_type = trace[1].doc_type
    /\ (ret.op = "process_document_async" /\ ret.value.success
            /\ ret.value.processing_result.success)
            => ret.value.processing_result.document_type = "general"
    /\ ret.op = "batch_process_documents_async" =>
            \A i \in 1..Len(ret.value.results) :
                LET entry == ret.value.results[i]
                IN  (entry.success /\ entry.result.success)
                        => entry.result.document_type = "general"
C29_Witness ==
    /\ ret.op = "batch_process_documents_async"
    /\ args.use_ml
    /\ Len(ret.value.results) = 2
    /\ ret.value.results[1].success /\ ret.value.results[1].result.success
    /\ ret.value.results[1].result.document_type = "general"
    /\ ~ret.value.results[2].success

\* C30: every result of parse_document with success = True has document_type,
\* pattern_extraction, contact_info, name_info, entities, ml_features,
\* cleaned_text and extraction_time; name, entity and feature extraction run
\* whether or not use_ml is set; cleaned_text is the cleaned text when that
\* has at most 1000 characters and else its first 1000 characters followed
\* by '...'; every result with success = False has error and none of the
\* extraction fields.
C30_ResultShape ==
    ret.op = "parse" =>
        LET extraction == {"document_type", "pattern_extraction", "contact_info", "name_info",
                           "entities", "ml_features", "cleaned_text"}
            cleaned == IF trace = <<>> THEN args ELSE clean_text(trace[1].out)
            ran(step) == \E i \in 2..Len(trace) : trace[i] = step
        IN  /\ ~ret.raised
            /\ ret.value.success
                => /\ extraction \cup {"extraction_time"} \subseteq DOMAIN ret.value
                   /\ ret.value.name_info.call = "extract_document_holder_name"
                   /\ ret.value.entities.call = "extract_entities"
                   /\ ret.value.ml_features.call = "extract_features"
                   /\ trace # <<>>
                        => /\ ran("extract_document_holder_name")
                           /\ ran("extract_entities")
                           /\ ran("extract_features")
                   /\ Len(cleaned) <= 1000 => ret.value.cleaned_text = cleaned
                   /\ Len(cleaned) > 1000
                        => /\ Len(ret.value.cleaned_text) = 1003
                           /\ SubSeq(ret.value.cleaned_text, 1, 1000) = SubSeq(cleaned, 1, 1000)
                           /\ SubSeq(ret.value.cleaned_text, 1001, 1003) = <<".", ".", ".">>
            /\ ~ret.value.success
                => /\ "error" \in DOMAIN ret.value
                   /\ DOMAIN ret.value \cap extraction = {}
C30_Witness ==
    /\ ret.op = "parse" /\ ret.value.success
    /\ Len(args) = 1002
    /\ Len(ret.value.cleaned_text) = 1003
    /\ ret.value.cleaned_text[1003] = "."

====
